---- MODULE Spec2Model ----
(***************************************************************************)
(* Binary/vanilla arbitrage scanner and hold-to-expiry backtest.           *)
(*                                                                         *)
(* Numbers.  The program computes on Python floats.  They are modelled as  *)
(* exact rationals <<n, d>> with d > 0 in lowest terms, so every sum,      *)
(* product, quotient and comparison below is the real-number one.  NaN and *)
(* the infinities are outside the modelled domain.  The float differs from *)
(* the exact value by its rounding error.  Two effects of it are carried:  *)
(* a sum that absorbs its smaller term (Binary64Add), and the sign of a    *)
(* payoff whose exact value is 0 or within the rounding error of 0         *)
(* (Binary64RoundTrip, FloatSigns, BoundaryFloatSign).                     *)
(*                                                                         *)
(* The data fetchers (src/data) are modelled by their control flow only:   *)
(* the retry loop of the GET helpers and the paging loop of _get_trades.   *)
(*                                                                         *)
(* Calls.  A call returns Ok(v) or Raise(e): an exception raised by a      *)
(* callee and not caught propagates to the caller as the same Raise(e).    *)
(***************************************************************************)
EXTENDS Integers, Sequences, FiniteSets, TLC

----------------------------------------------------------------------------
(* Float arithmetic as exact rational arithmetic *)

Abs(x) == IF x < 0 THEN -x ELSE x

RECURSIVE GCD(_, _)
GCD(a, b) == IF b = 0 THEN a ELSE GCD(b, a % b)

Rat(n, d) ==
    LET g == GCD(Abs(n), Abs(d))
        s == IF d < 0 THEN -1 ELSE 1
    IN  <<(s * n) \div g, (s * d) \div g>>

R(n) == <<n, 1>>
Zero == R(0)
One == R(1)

RAdd(a, b) == Rat(a[1] * b[2] + b[1] * a[2], a[2] * b[2])
RSub(a, b) == Rat(a[1] * b[2] - b[1] * a[2], a[2] * b[2])
RMul(a, b) == Rat(a[1] * b[1], a[2] * b[2])
RDiv(a, b) == Rat(a[1] * b[2], a[2] * b[1])
RLt(a, b) == a[1] * b[2] < b[1] * a[2]
RLe(a, b) == a[1] * b[2] <= b[1] * a[2]
RMax(a, b) == IF RLt(a, b) THEN b ELSE a

----------------------------------------------------------------------------
(* Results of calls *)

Ok(v) == [tag |-> "ok", val |-> v]
Raise(e) == [tag |-> "raise", val |-> e]
None == [tag |-> "None"]

\* A numeric field that is absent or NaN in a table, and dict.get's None.
Missing == <<>>

----------------------------------------------------------------------------
(* Strings.  The key strings of the tables form a finite universe; the     *)
(* str methods the program applies are given by their values on it.        *)

\* str.strip(): leading and trailing whitespace removed.
Strip(s) ==
    CASE s = " 2024-01-01" -> "2024-01-01"
      [] s = "2024-02-01 " -> "2024-02-01"
      [] s = "btc " -> "btc"
      [] s = "BTC " -> "BTC"
      [] s = " Call" -> "Call"
      [] s = " call" -> "call"
      [] OTHER -> s

\* str.upper()
Upper(s) ==
    CASE s = "btc" -> "BTC"
      [] s = "btc " -> "BTC "
      [] s = "tbd" -> "TBD"
      [] s = "call" -> "CALL"
      [] s = " call" -> " CALL"
      [] s = "Call" -> "CALL"
      [] s = " Call" -> " CALL"
      [] s = "put" -> "PUT"
      [] s = "digital" -> "DIGITAL"
      [] OTHER -> s

\* str.lower()
Lower(s) ==
    CASE s = "BTC" -> "btc"
      [] s = "BTC " -> "btc "
      [] s = "ETH" -> "eth"
      [] s = "Call" -> "call"
      [] s = " Call" -> " call"
      [] s = "CALL" -> "call"
      [] s = "PUT" -> "put"
      [] OTHER -> s

\* The stripped key strings in the order of Python's str comparison.
StrOrder ==
    <<"2023-12-31", "2024-01-01", "2024-01-31", "2024-02-01", "2024-02-02",
      "2024-02-04", "BTC", "ETH", "btc", "tbd">>

StrRank(s) == CHOOSE i \in 1 .. Len(StrOrder) : StrOrder[i] = s
StrLt(a, b) == StrRank(a) < StrRank(b)

\* datetime.fromisoformat(s).date().toordinal() for the strings that parse.
IsoOrdinal(s) ==
    CASE s = "2023-12-31" -> 738885
      [] s = "2024-01-01" -> 738886
      [] s = "2024-01-31" -> 738916
      [] s = "2024-02-01" -> 738917
      [] s = "2024-02-02" -> 738918
      [] s = "2024-02-04" -> 738920

IsoStrings ==
    {"2023-12-31", "2024-01-01", "2024-01-31", "2024-02-01", "2024-02-02",
     "2024-02-04"}

----------------------------------------------------------------------------
(* src/arbitrage/conditions.py *)

\* A premium of 2^26 USD and a fee of 2^-28 USD.
LargePremium == R(67108864)
SmallFee == Rat(1, 268435456)

\* Pv_usd + fee_usd in binary64 (conditions.py:24).  On the amounts of the
\* grids the sum is exact.  The floats next to 2^26 are 2^-26 apart, so a
\* fee of 2^-28, less than half that step, is rounded away: the sum is the
\* premium.
Binary64Add(Pv_usd, fee_usd) ==
    IF Pv_usd = LargePremium /\ fee_usd = SmallFee THEN Pv_usd
    ELSE RAdd(Pv_usd, fee_usd)

\* Mutant of binary_qty_to_cover_vanilla: the fee is not added to the premium.
binary_qty_to_cover_vanilla_fee_not_added(Qv, Pv_usd, fee_usd, Pb) ==
    IF ~(RLt(Zero, Pb) /\ RLt(Pb, One)) THEN Raise("ValueError")
    ELSE IF RLe(Qv, Zero) THEN Raise("ValueError")
    ELSE IF RLt(Pv_usd, Zero) THEN Raise("ValueError")
    ELSE IF RLt(fee_usd, Zero) THEN Raise("ValueError")
    ELSE Ok(RDiv(RMul(Qv, Pv_usd), RSub(One, Pb)))

\* Mutant of binary_qty_to_cover_vanilla: the check of fee_usd is missing.
binary_qty_to_cover_vanilla_no_fee_check(Qv, Pv_usd, fee_usd, Pb) ==
    IF ~(RLt(Zero, Pb) /\ RLt(Pb, One)) THEN Raise("ValueError")
    ELSE IF RLe(Qv, Zero) THEN Raise("ValueError")
    ELSE IF RLt(Pv_usd, Zero) THEN Raise("ValueError")
    ELSE Ok(RDiv(RMul(Qv, Binary64Add(Pv_usd, fee_usd)), RSub(One, Pb)))

binary_qty_to_cover_vanilla(Qv, Pv_usd, fee_usd, Pb) ==
    IF ~(RLt(Zero, Pb) /\ RLt(Pb, One)) THEN Raise("ValueError")
    ELSE IF RLe(Qv, Zero) THEN Raise("ValueError")
    ELSE IF RLt(Pv_usd, Zero) THEN Raise("ValueError")
    ELSE IF RLt(fee_usd, Zero) THEN Raise("ValueError")
    ELSE Ok(RDiv(RMul(Qv, Binary64Add(Pv_usd, fee_usd)), RSub(One, Pb)))

kv_bound_for_call_case(Kb, Qv, Pv_usd, Pb) ==
    IF ~(RLt(Zero, Pb) /\ RLt(Pb, One)) THEN Raise("ValueError")
    ELSE IF RLe(Qv, Zero) THEN Raise("ValueError")
    ELSE Ok(RSub(Kb, RDiv(RMul(Qv, Pv_usd), RSub(One, Pb))))

kv_bound_for_put_case(Kb, Qv, Pv_usd, Pb) ==
    IF ~(RLt(Zero, Pb) /\ RLt(Pb, One)) THEN Raise("ValueError")
    ELSE IF RLe(Qv, Zero) THEN Raise("ValueError")
    ELSE Ok(RAdd(Kb, RDiv(RMul(Qv, Pv_usd), RSub(One, Pb))))

----------------------------------------------------------------------------
(* src/arbitrage/payoffs.py *)

\* Mutant of payoff_long_call_binary_put: the vanilla leg pays as a put,
\* max(K_v - S_T, 0).
payoff_long_call_binary_put_pays_as_put(S_T, K_v, P_v_usd, Q_v, P_b, Q_b, E) ==
    IF RLe(S_T, Zero) THEN Raise("ValueError")
    ELSE IF E \notin {0, 1} THEN Raise("ValueError")
    ELSE IF RLe(Q_v, Zero) \/ RLe(Q_b, Zero) THEN Raise("ValueError")
    ELSE LET vanilla_leg == RMul(Q_v, RSub(RMax(RSub(K_v, S_T), Zero), P_v_usd))
             binary_leg == RMul(Q_b, RSub(R(E), P_b))
         IN  Ok(RAdd(vanilla_leg, binary_leg))

payoff_long_call_binary_put(S_T, K_v, P_v_usd, Q_v, P_b, Q_b, E) ==
    IF RLe(S_T, Zero) THEN Raise("ValueError")
    ELSE IF E \notin {0, 1} THEN Raise("ValueError")
    ELSE IF RLe(Q_v, Zero) \/ RLe(Q_b, Zero) THEN Raise("ValueError")
    ELSE LET vanilla_leg == RMul(Q_v, RSub(RMax(RSub(S_T, K_v), Zero), P_v_usd))
             binary_leg == RMul(Q_b, RSub(R(E), P_b))
         IN  Ok(RAdd(vanilla_leg, binary_leg))

\* Mutant of payoff_long_put_binary_call: only Q_v is checked, not Q_b.
payoff_long_put_binary_call_no_Qb_check(S_T, K_v, P_v_usd, Q_v, P_b, Q_b, E) ==
    IF RLe(S_T, Zero) THEN Raise("ValueError")
    ELSE IF E \notin {0, 1} THEN Raise("ValueError")
    ELSE IF RLe(Q_v, Zero) THEN Raise("ValueError")
    ELSE LET vanilla_leg == RMul(Q_v, RSub(RMax(RSub(K_v, S_T), Zero), P_v_usd))
             binary_leg == RMul(Q_b, RSub(R(E), P_b))
         IN  Ok(RAdd(vanilla_leg, binary_leg))

payoff_long_put_binary_call(S_T, K_v, P_v_usd, Q_v, P_b, Q_b, E) ==
    IF RLe(S_T, Zero) THEN Raise("ValueError")
    ELSE IF E \notin {0, 1} THEN Raise("ValueError")
    ELSE IF RLe(Q_v, Zero) \/ RLe(Q_b, Zero) THEN Raise("ValueError")
    ELSE LET vanilla_leg == RMul(Q_v, RSub(RMax(RSub(K_v, S_T), Zero), P_v_usd))
             binary_leg == RMul(Q_b, RSub(R(E), P_b))
         IN  Ok(RAdd(vanilla_leg, binary_leg))

\* Python floats are IEEE-754 binary64. The operators above give the exact
\* value of each formula; the float a function returns is that value up to
\* the rounding of its inputs and of each operation.

Sign(x) == IF RLt(Zero, x) THEN 1 ELSE IF RLt(x, Zero) THEN -1 ELSE 0

RAbs(x) == IF RLt(x, Zero) THEN RSub(Zero, x) ELSE x

IsWhole(x) == x[2] = 1

\* max(S_T - Kv, 0) of a call, max(Kv - S_T, 0) of a put.
IntrinsicOf(vanilla_type, S_T, Kv) ==
    IF vanilla_type = "call" THEN RMax(RSub(S_T, Kv), Zero)
    ELSE RMax(RSub(Kv, S_T), Zero)

\* Where the vanilla leg expires worthless and the binary leg pays (E = 1)
\* the payoff of a candidate is Q_b * (1 - P_b) - cost, with Q_b the float
\* cost / (1.0 - Pb) of binary_qty_to_cover_vanilla and cost the whole
\* amount Qv * (Pv_usd + fee_usd).  Binary64RoundTrip is the sign of
\* (cost / (1.0 - Pb)) * (1 - Pb) - cost in binary64 for whole costs from 1
\* to 12 and Pb in {0.3, 0.5}: the quotient 3 / 0.7 is rounded down and the
\* product comes back below 3.
RoundTripCosts == {R(k) : k \in 1 .. 12}
RoundTripPrices == {Rat(3, 10), Rat(1, 2)}

Binary64RoundTrip(cost, Pb) ==
    IF Pb = Rat(3, 10) /\ cost \in {R(3), R(6), R(12)} THEN -1 ELSE 0

\* A bound of the distance between the float payoff of candidate c settled
\* at S_T and its exact value.  Each input and each operation is rounded by
\* a relative 2^-53 at most, which puts the float within
\* 2^-50 * (Qv * (S_T + |Kv| + Pv_usd) + Qb / (1 - Pb)) of the exact value;
\* the bound taken here, with 2^-12, is far above that.
Resolution == Rat(1, 4096)

RoundingBound(c, S_T) ==
    RMul(Resolution,
         RAdd(RMul(c.Qv, RAdd(RAdd(S_T, RAbs(c.Kv)), c.Pv_usd)),
              RDiv(c.Qb, RSub(One, c.Pb))))

\* Every number of the payoff of c at S_T is a float and every operation on
\* them is exact: whole amounts and Pb = 0.5, so that 1 - Pb, Qb and the two
\* legs are whole numbers or halves.
ExactInBinary64(c, S_T) ==
    /\ c.Pb = Rat(1, 2)
    /\ \A x \in {c.Qv, c.Pv_usd, c.fee_usd, c.Kv, S_T} : IsWhole(x)

\* The signs that the float payoff of candidate c (sized by
\* binary_qty_to_cover_vanilla) settled at S_T with outcome E can have, exact
\* being its exact value:
\*  - where float arithmetic is exact, or the exact value is farther from 0
\*    than the rounding error reaches, the sign of the exact value;
\*  - where the exact value is 0 because the vanilla leg expires worthless
\*    and the binary leg pays, the sign of the round trip through Qb;
\*  - anywhere else the exact value does not decide: a payoff that is positive
\*    by less than the rounding error can be a negative float (call, Kv = 0.5,
\*    S_T = 0.5 + 2^-53, Pv_usd = 3, Pb = 0.3, E = 1: intrinsic 1.1e-16 is lost
\*    in intrinsic - P_v_usd and the float is -4.4e-16).
FloatSigns(exact, c, S_T, E) ==
    LET intrinsic == IntrinsicOf(c.vanilla_type, S_T, c.Kv)
        cost == RMul(c.Qv, RAdd(c.Pv_usd, c.fee_usd))
    IN  IF ExactInBinary64(c, S_T) THEN {Sign(exact)}
        ELSE IF RLt(RoundingBound(c, S_T), RAbs(exact)) THEN {Sign(exact)}
        ELSE IF /\ exact = Zero /\ E = 1 /\ intrinsic = Zero
                /\ cost \in RoundTripCosts /\ c.Pb \in RoundTripPrices
                /\ IsWhole(c.Qv) /\ IsWhole(c.Pv_usd)
        THEN {Binary64RoundTrip(cost, c.Pb)}
        ELSE {-1, 0, 1}

\* A pairing sized at the admissibility boundary (Kv the float returned by
\* the strike-bound function, Qb the float returned by
\* binary_qty_to_cover_vanilla) and settled at S_T: the states
\* <<vanilla_type, Kb, Pb, Pv_usd, Qv, fee_usd, S_T>> whose exact payoff is 0
\* and whose binary64 payoff is below 0, and those where it is above 0. The
\* tables hold every such state with whole Kb, Pv_usd, fee_usd and S_T up to
\* 4 and Pb in quarters, and up to 5 with Pb in fifths; in every other state
\* of these grids the float has the sign of the exact value.
BoundaryFloatBelowZero ==
    {<<"call", One, Rat(1, 4), One, Rat(1, 2), One, R(2)>>,
     <<"call", One, Rat(1, 4), One, Rat(1, 2), R(4), R(3)>>,
     <<"call", One, Rat(1, 4), One, One, Zero, One>>,
     <<"call", One, Rat(1, 4), One, One, R(3), R(2)>>,
     <<"call", One, Rat(1, 4), One, R(2), R(4), One>>,
     <<"call", One, Rat(1, 4), R(2), Rat(1, 2), R(2), R(3)>>,
     <<"call", One, Rat(1, 4), R(2), One, Zero, One>>,
     <<"call", One, Rat(1, 4), R(2), One, R(3), R(2)>>,
     <<"call", One, Rat(1, 4), R(4), Rat(1, 2), One, R(4)>>,
     <<"call", One, Rat(1, 4), R(4), One, Zero, One>>,
     <<"call", One, Rat(1, 4), R(4), One, R(3), R(2)>>,
     <<"call", R(2), Rat(1, 4), One, Rat(1, 2), One, R(3)>>,
     <<"call", R(2), Rat(1, 4), One, Rat(1, 2), R(4), R(4)>>,
     <<"call", R(2), Rat(1, 4), One, One, Zero, R(2)>>,
     <<"call", R(2), Rat(1, 4), One, One, R(3), R(3)>>,
     <<"call", R(2), Rat(1, 4), One, R(2), R(4), R(2)>>,
     <<"call", R(2), Rat(1, 4), R(2), Rat(1, 2), R(2), R(4)>>,
     <<"call", R(2), Rat(1, 4), R(2), One, Zero, R(2)>>,
     <<"call", R(2), Rat(1, 4), R(2), One, R(3), R(3)>>,
     <<"call", R(2), Rat(1, 4), R(4), One, Zero, R(2)>>,
     <<"call", R(2), Rat(1, 4), R(4), One, R(3), R(3)>>,
     <<"call", R(3), Rat(1, 4), One, Rat(1, 2), One, R(4)>>,
     <<"call", R(3), Rat(1, 4), One, One, Zero, R(3)>>,
     <<"call", R(3), Rat(1, 4), One, One, R(3), R(4)>>,
     <<"call", R(3), Rat(1, 4), One, R(2), R(4), R(3)>>,
     <<"call", R(3), Rat(1, 4), R(2), One, Zero, R(3)>>,
     <<"call", R(3), Rat(1, 4), R(2), One, R(3), R(4)>>,
     <<"call", R(3), Rat(1, 4), R(4), One, Zero, R(3)>>,
     <<"call", R(3), Rat(1, 4), R(4), One, R(3), R(4)>>,
     <<"call", R(4), Rat(1, 4), One, One, Zero, R(4)>>,
     <<"call", R(4), Rat(1, 4), One, R(2), R(4), R(4)>>,
     <<"call", R(4), Rat(1, 4), R(2), One, Zero, R(4)>>,
     <<"call", R(4), Rat(1, 4), R(4), One, Zero, R(4)>>,
     <<"put", R(2), Rat(1, 4), One, Rat(1, 2), One, One>>,
     <<"put", R(2), Rat(1, 4), One, One, R(3), One>>,
     <<"put", R(2), Rat(1, 4), R(2), One, R(3), One>>,
     <<"put", R(2), Rat(1, 4), R(4), One, R(3), One>>,
     <<"put", R(3), Rat(1, 4), One, Rat(1, 2), One, R(2)>>,
     <<"put", R(3), Rat(1, 4), One, Rat(1, 2), R(4), One>>,
     <<"put", R(3), Rat(1, 4), One, One, R(3), R(2)>>,
     <<"put", R(3), Rat(1, 4), R(2), Rat(1, 2), R(2), One>>,
     <<"put", R(3), Rat(1, 4), R(2), One, R(3), R(2)>>,
     <<"put", R(3), Rat(1, 4), R(4), One, R(3), R(2)>>,
     <<"put", R(4), Rat(1, 4), One, One, R(3), R(3)>>,
     <<"put", R(4), Rat(1, 4), R(2), Rat(1, 2), R(2), R(2)>>,
     <<"put", R(4), Rat(1, 4), R(2), One, R(3), R(3)>>,
     <<"put", R(4), Rat(1, 4), R(4), Rat(1, 2), One, One>>,
     <<"put", R(4), Rat(1, 4), R(4), One, R(3), R(3)>>,
     <<"call", One, Rat(4, 5), Zero, Rat(1, 2), One, R(5)>>,
     <<"call", One, Rat(4, 5), Zero, One, One, R(5)>>,
     <<"call", One, Rat(4, 5), Zero, R(2), One, R(5)>>,
     <<"call", One, Rat(4, 5), One, One, One, R(5)>>,
     <<"call", One, Rat(4, 5), One, R(2), R(2), R(4)>>,
     <<"call", One, Rat(4, 5), R(2), One, One, R(5)>>,
     <<"call", One, Rat(4, 5), R(2), R(2), R(3), R(3)>>,
     <<"call", One, Rat(4, 5), R(4), One, One, R(5)>>,
     <<"call", R(2), Rat(4, 5), One, R(2), R(2), R(5)>>,
     <<"call", R(2), Rat(4, 5), R(2), R(2), R(3), R(4)>>,
     <<"call", R(3), Rat(4, 5), R(2), R(2), R(3), R(5)>>,
     <<"put", R(3), Rat(4, 5), R(2), R(2), R(3), One>>,
     <<"put", R(4), Rat(4, 5), One, R(2), R(2), One>>,
     <<"put", R(4), Rat(4, 5), R(2), R(2), R(3), R(2)>>,
     <<"put", R(5), Rat(4, 5), Zero, Rat(1, 2), One, One>>,
     <<"put", R(5), Rat(4, 5), Zero, One, One, One>>,
     <<"put", R(5), Rat(4, 5), Zero, R(2), One, One>>,
     <<"put", R(5), Rat(4, 5), One, One, One, One>>,
     <<"put", R(5), Rat(4, 5), One, R(2), R(2), R(2)>>,
     <<"put", R(5), Rat(4, 5), R(2), One, One, One>>,
     <<"put", R(5), Rat(4, 5), R(2), R(2), R(3), R(3)>>,
     <<"put", R(5), Rat(4, 5), R(4), One, One, One>>}

BoundaryFloatAboveZero ==
    {<<"put", R(4), Rat(1, 4), One, Rat(1, 2), One, R(3)>>,
     <<"put", R(4), Rat(1, 4), One, Rat(1, 2), R(4), R(2)>>,
     <<"call", One, Rat(2, 5), R(4), One, R(3), R(3)>>,
     <<"call", R(2), Rat(2, 5), R(4), One, R(3), R(4)>>,
     <<"call", R(3), Rat(2, 5), R(4), One, R(3), R(5)>>,
     <<"call", R(4), Rat(2, 5), One, One, Zero, R(4)>>,
     <<"call", R(5), Rat(2, 5), One, One, Zero, R(5)>>,
     <<"put", R(3), Rat(2, 5), R(4), One, R(3), One>>,
     <<"put", R(4), Rat(2, 5), R(4), One, R(3), R(2)>>,
     <<"put", R(5), Rat(2, 5), R(4), One, R(3), R(3)>>}

\* The sign of the float payoff of a pairing sized at the boundary.
BoundaryFloatSign(exact, key) ==
    IF exact # Zero THEN Sign(exact)
    ELSE IF key \in BoundaryFloatBelowZero THEN -1
    ELSE IF key \in BoundaryFloatAboveZero THEN 1
    ELSE 0

----------------------------------------------------------------------------
(* src/arbitrage/strategy.py *)

\* Mutant of infer_direction: the tie Kb = spot goes to the put/call branch.
infer_direction_tie_to_put(spot, Kb) ==
    IF RLe(spot, Zero) THEN Raise("ValueError")
    ELSE IF RLe(Kb, spot) THEN Ok(<<"put", "call">>)
    ELSE Ok(<<"call", "put">>)

infer_direction(spot, Kb) ==
    IF RLe(spot, Zero) THEN Raise("ValueError")
    ELSE IF RLt(Kb, spot) THEN Ok(<<"put", "call">>)
    ELSE Ok(<<"call", "put">>)

TradeCandidate(a, binary_type, Qb, kv_bound, edge) ==
    [tag |-> "TradeCandidate",
     date |-> a.date, underlying |-> a.underlying, expiry |-> a.expiry,
     spot |-> a.spot,
     binary_type |-> binary_type, Kb |-> a.Kb, Pb |-> a.Pb,
     vanilla_type |-> a.vanilla_type, Kv |-> a.Kv, Pv_usd |-> a.Pv_usd,
     Qv |-> a.Qv, Qb |-> Qb, fee_usd |-> a.fee_usd,
     kv_bound |-> kv_bound, edge |-> edge]

\* Steps 2 and 3 of check_and_build_candidate: the bound, the edge, the
\* acceptance test and the sizing of the binary leg.
BoundAndSize(a, binary_type) ==
    LET bound == IF a.vanilla_type = "call"
                 THEN kv_bound_for_call_case(a.Kb, a.Qv, a.Pv_usd, a.Pb)
                 ELSE kv_bound_for_put_case(a.Kb, a.Qv, a.Pv_usd, a.Pb)
    IN  IF bound.tag = "raise" THEN bound
        ELSE LET kv_bound == bound.val
                 edge == IF a.vanilla_type = "call"
                         THEN RSub(kv_bound, a.Kv)
                         ELSE RSub(a.Kv, kv_bound)
                 ok == RLt(Zero, edge)
             IN  IF ~ok THEN Ok(None)
                 ELSE LET q == binary_qty_to_cover_vanilla(
                                   a.Qv, a.Pv_usd, a.fee_usd, a.Pb)
                      IN  IF q.tag = "raise" THEN q
                          ELSE Ok(TradeCandidate(a, binary_type, q.val,
                                                 kv_bound, edge))

\* Mutant of DirectionAndBuild: the pair returned by infer_direction is
\* unpacked in the wrong order, so the binary leg gets the vanilla type.
DirectionAndBuild_legs_swapped(a) ==
    LET dir == infer_direction(a.spot, a.Kb)
    IN  IF dir.tag = "raise" THEN dir
        ELSE IF a.vanilla_type # dir.val[2] THEN Ok(None)
        ELSE BoundAndSize(a, dir.val[2])

\* Step 1 of check_and_build_candidate: the direction and the type test.
DirectionAndBuild(a) ==
    LET dir == infer_direction(a.spot, a.Kb)
    IN  IF dir.tag = "raise" THEN dir
        ELSE IF a.vanilla_type # dir.val[2] THEN Ok(None)
        ELSE BoundAndSize(a, dir.val[1])

\* Mutant of check_and_build_candidate: the spot sanity check is missing.
check_and_build_candidate_no_spot_check(a) ==
    IF ~(RLt(Zero, a.Pb) /\ RLt(a.Pb, One)) THEN Ok(None)
    ELSE IF RLe(a.Qv, Zero) THEN Ok(None)
    ELSE IF RLt(a.Pv_usd, Zero) THEN Ok(None)
    ELSE IF RLt(a.fee_usd, Zero) THEN Ok(None)
    ELSE DirectionAndBuild(a)

check_and_build_candidate(a) ==
    IF RLe(a.spot, Zero) THEN Ok(None)
    ELSE IF ~(RLt(Zero, a.Pb) /\ RLt(a.Pb, One)) THEN Ok(None)
    ELSE IF RLe(a.Qv, Zero) THEN Ok(None)
    ELSE IF RLt(a.Pv_usd, Zero) THEN Ok(None)
    ELSE IF RLt(a.fee_usd, Zero) THEN Ok(None)
    ELSE DirectionAndBuild(a)

\* The keyword-only parameters of check_and_build_candidate.
BuilderParams ==
    {"date", "underlying", "expiry", "spot", "Kb", "Pb", "Kv",
     "vanilla_type", "Pv_usd", "Qv", "fee_usd"}

\* A Python call of check_and_build_candidate with keywords kw: a keyword the
\* signature does not declare ends the call with TypeError before the body.
call_check_and_build_candidate(kw, a) ==
    IF kw \subseteq BuilderParams
    THEN check_and_build_candidate(a)
    ELSE Raise("TypeError")

----------------------------------------------------------------------------
(* src/arbitrage/scanner.py: the steps of scan_opportunities *)

\* A date that parsed ([tag |-> "date"]) or None.
_parse_iso_date(d) ==
    IF d \in IsoStrings THEN [tag |-> "date", ordinal |-> IsoOrdinal(d)]
    ELSE None

UnparsedDays == 1000000000

\* The signature's defaults of the three knobs.
DefaultEdgeEpsilon == 100
DefaultNearestExpiryDays == 2
DefaultPbClip == Rat(2, 100)

DefaultConfig ==
    [Qv |-> One, fee_usd |-> Zero, min_edge |-> Zero,
     edge_epsilon |-> R(DefaultEdgeEpsilon), pb_clip |-> DefaultPbClip,
     nearest_expiry_days |-> DefaultNearestExpiryDays,
     overrides |-> {}]

\* Lines 43-45: the function writes the normalized keys to written, a copy
\* of df; the caller's frame df keeps its contents.
CallerFrameAfter(df, written) == df

\* "Normalize keys" on the copies of the three tables.
NormalizeSpot(df) ==
    [i \in 1 .. Len(df) |->
        [df[i] EXCEPT !.date = Strip(@), !.underlying = Upper(Strip(@))]]

NormalizeBinary(df) ==
    [i \in 1 .. Len(df) |->
        [df[i] EXCEPT !.date = Strip(@), !.underlying = Upper(Strip(@)),
                      !.expiry = Strip(@)]]

\* Mutant of NormalizeVanilla: the type label is stripped but not lowered.
NormalizeVanilla_type_not_lowered(df) ==
    [i \in 1 .. Len(df) |->
        [df[i] EXCEPT !.date = Strip(@), !.underlying = Upper(Strip(@)),
                      !.expiry = Strip(@), !.type = Strip(@)]]

NormalizeVanilla(df) ==
    [i \in 1 .. Len(df) |->
        [df[i] EXCEPT !.date = Strip(@), !.underlying = Upper(Strip(@)),
                      !.expiry = Strip(@), !.type = Strip(Lower(@))]]

\* set_index(["date", "underlying"])["spot"].to_dict(): the last row of a key
\* is the one the dict keeps.
SpotMapOf(spot) ==
    [k \in {<<spot[i].date, spot[i].underlying>> : i \in 1 .. Len(spot)} |->
        LET last == CHOOSE i \in 1 .. Len(spot) :
                       /\ <<spot[i].date, spot[i].underlying>> = k
                       /\ \A j \in 1 .. Len(spot) :
                             <<spot[j].date, spot[j].underlying>> = k => j <= i
        IN  spot[last].spot]

\* Mutant of DictGet: dict.get(key, 0.0).
DictGet_default_zero(m, k) == IF k \in DOMAIN m THEN m[k] ELSE Zero

\* dict.get(key): the value or None.
DictGet(m, k) == IF k \in DOMAIN m THEN m[k] ELSE Missing

\* The exact-expiry slice of the vanilla table.
ExactSlice(vanilla, date, underlying, expiry, required_vanilla_type) ==
    SelectSeq(vanilla, LAMBDA v :
        /\ v.date = date
        /\ v.underlying = underlying
        /\ v.expiry = expiry
        /\ v.type = required_vanilla_type)

\* Mutant of _abs_days: the signed number of days, without abs().
_abs_days_signed(x, b_exp) ==
    LET xdt == _parse_iso_date(x)
    IN  IF xdt.tag = "None" THEN UnparsedDays
        ELSE xdt.ordinal - b_exp.ordinal

_abs_days(x, b_exp) ==
    LET xdt == _parse_iso_date(x)
    IN  IF xdt.tag = "None" THEN UnparsedDays
        ELSE Abs(xdt.ordinal - b_exp.ordinal)

\* The nearest-expiry fallback: the rows of the closest expiry within
\* nearest_expiry_days, or the empty slice.
NearestSlice(vanilla, date, underlying, expiry, required_type, nearest_days) ==
    LET nearest_expiry_days == nearest_days
        base == SelectSeq(vanilla, LAMBDA v :
                    /\ v.date = date
                    /\ v.underlying = underlying
                    /\ v.type = required_type)
        b_exp == _parse_iso_date(expiry)
    IN  IF base = <<>> \/ b_exp.tag = "None" THEN <<>>
        ELSE LET near == SelectSeq(base, LAMBDA v :
                            _abs_days(v.expiry, b_exp) <= nearest_expiry_days)
             IN  IF near = <<>> THEN <<>>
                 ELSE LET min_d == CHOOSE d \in {_abs_days(near[i].expiry, b_exp) :
                                                   i \in 1 .. Len(near)} :
                                      \A i \in 1 .. Len(near) :
                                         d <= _abs_days(near[i].expiry, b_exp)
                      IN  SelectSeq(near, LAMBDA v :
                              _abs_days(v.expiry, b_exp) = min_d)

\* The slice of vanilla rows evaluated for one binary quote.
VanillaSlice(vanilla, date, underlying, expiry, required_type, nearest_days) ==
    LET nearest_expiry_days == nearest_days
        exact == ExactSlice(vanilla, date, underlying, expiry, required_type)
    IN  IF exact = <<>> /\ nearest_expiry_days > 0
        THEN NearestSlice(vanilla, date, underlying, expiry, required_type,
                          nearest_expiry_days)
        ELSE exact

\* Mutant of PremiumUsd: the underlying-denominated price is tried first.
PremiumUsd_price_first(v, spot_val) ==
    IF v.price # Missing THEN RMul(v.price, spot_val)
    ELSE IF v.price_usd # Missing THEN v.price_usd
    ELSE Missing

\* "price conversion": the USD premium of a vanilla row, or Missing.
PremiumUsd(v, spot_val) ==
    IF v.price_usd # Missing THEN v.price_usd
    ELSE IF v.price # Missing THEN RMul(v.price, spot_val)
    ELSE Missing

\* The keywords of the call of check_and_build_candidate in the scanner.
ScannerCallKeywords == BuilderParams \cup {"edge_epsilon", "pb_clip"}

\* The output row of a candidate.
OpportunityRow(cand) ==
    [date |-> cand.date, underlying |-> cand.underlying, expiry |-> cand.expiry,
     spot |-> cand.spot, binary_type |-> cand.binary_type, Kb |-> cand.Kb,
     Pb |-> cand.Pb, vanilla_type |-> cand.vanilla_type, Kv |-> cand.Kv,
     Pv_usd |-> cand.Pv_usd, Qv |-> cand.Qv, Qb |-> cand.Qb,
     fee_usd |-> cand.fee_usd, kv_bound |-> cand.kv_bound, edge |-> cand.edge]

\* sort_values(["date", "underlying", "expiry", "edge"],
\*             ascending=[True, True, True, False]): a comes before b.
OpportunityBefore(a, b) ==
    \/ StrLt(a.date, b.date)
    \/ /\ a.date = b.date
       /\ \/ StrLt(a.underlying, b.underlying)
          \/ /\ a.underlying = b.underlying
             /\ \/ StrLt(a.expiry, b.expiry)
                \/ a.expiry = b.expiry /\ RLt(b.edge, a.edge)

\* x put into the sorted table t before the first row that x comes before:
\* rows that compare equal keep their order (the sort on several columns is
\* stable).
RECURSIVE InsertOpportunity(_, _)
InsertOpportunity(t, x) ==
    IF t = <<>> THEN <<x>>
    ELSE IF OpportunityBefore(x, Head(t)) THEN <<x>> \o t
    ELSE <<Head(t)>> \o InsertOpportunity(Tail(t), x)

RECURSIVE SortOpportunities(_)
SortOpportunities(rows) ==
    IF rows = <<>> THEN <<>>
    ELSE InsertOpportunity(SortOpportunities(SubSeq(rows, 1, Len(rows) - 1)),
                           rows[Len(rows)])

----------------------------------------------------------------------------
(* src/backtest/backtest.py *)

_spot_map(spot_df) ==
    SpotMapOf([i \in 1 .. Len(spot_df) |->
                  [spot_df[i] EXCEPT !.date = Strip(@),
                                     !.underlying = Strip(Upper(@))]])

\* Mutant of _binary_outcome: a call leg at the tie S_T = Kb settles at 0.
_binary_outcome_call_strict(binary_type, S_T, Kb) ==
    LET b == Strip(Lower(binary_type))
    IN  IF b = "call" THEN Ok(IF RLt(Kb, S_T) THEN 1 ELSE 0)
        ELSE IF b = "put" THEN Ok(IF RLt(S_T, Kb) THEN 1 ELSE 0)
        ELSE Raise("ValueError")

_binary_outcome(binary_type, S_T, Kb) ==
    LET b == Strip(Lower(binary_type))
    IN  IF b = "call" THEN Ok(IF RLe(Kb, S_T) THEN 1 ELSE 0)
        ELSE IF b = "put" THEN Ok(IF RLt(S_T, Kb) THEN 1 ELSE 0)
        ELSE Raise("ValueError")

\* The copy of opp_df with its keys normalized.
NormalizeOpp(opp_df) ==
    [i \in 1 .. Len(opp_df) |->
        [opp_df[i] EXCEPT !.date = Strip(@), !.expiry = Strip(@),
                          !.underlying = Strip(Upper(@))]]

\* Mutant of TerminalSpot: the spot is looked up at the decision date.
TerminalSpot_at_decision_date(smap, r) == DictGet(smap, <<r.date, r.underlying>>)

\* "settlement proxy": smap.get((expiry, u)), the spot or None.
TerminalSpot(smap, r) == DictGet(smap, <<r.expiry, r.underlying>>)

\* The payoff of one row by its leg types: Ok(pnl), a raise of the payoff
\* function, or None for a combination that is skipped.
DispatchPayoff(vanilla_type, binary_type, S_T, Kv, Pv_usd, Qv, Pb, Qb, E) ==
    IF vanilla_type = "call" /\ binary_type = "put"
    THEN payoff_long_call_binary_put(S_T, Kv, Pv_usd, Qv, Pb, Qb, E)
    ELSE IF vanilla_type = "put" /\ binary_type = "call"
    THEN payoff_long_put_binary_call(S_T, Kv, Pv_usd, Qv, Pb, Qb, E)
    ELSE Ok(Missing)

BacktestRow(r, S_T, binary_type, vanilla_type, E, pnl, cum) ==
    [date |-> r.date, underlying |-> r.underlying, expiry |-> r.expiry,
     spot_t |-> r.spot, S_T |-> S_T, binary_type |-> binary_type,
     Kb |-> r.Kb, Pb |-> r.Pb, E |-> E, vanilla_type |-> vanilla_type,
     Kv |-> r.Kv, Pv_usd |-> r.Pv_usd, Qv |-> r.Qv, Qb |-> r.Qb,
     pnl |-> pnl, cum_pnl |-> cum, edge |-> r.edge]

\* sort_values(["date", "underlying", "expiry"]): a comes before b.
BacktestBefore(a, b) ==
    \/ StrLt(a.date, b.date)
    \/ /\ a.date = b.date
       /\ \/ StrLt(a.underlying, b.underlying)
          \/ a.underlying = b.underlying /\ StrLt(a.expiry, b.expiry)

RECURSIVE InsertBacktest(_, _)
InsertBacktest(t, x) ==
    IF t = <<>> THEN <<x>>
    ELSE IF BacktestBefore(x, Head(t)) THEN <<x>> \o t
    ELSE <<Head(t)>> \o InsertBacktest(Tail(t), x)

RECURSIVE SortBacktest(_)
SortBacktest(rows) ==
    IF rows = <<>> THEN <<>>
    ELSE InsertBacktest(SortBacktest(SubSeq(rows, 1, Len(rows) - 1)),
                        rows[Len(rows)])

----------------------------------------------------------------------------
(* State *)

VARIABLES
    fcall,     \* the last call of a pure function: its name, arguments, result
    rt,        \* a bound / size / settle evaluation at the admissibility boundary
    bcall,     \* the last call of check_and_build_candidate
    scan_in,   \* scan_opportunities: the three tables and the options passed
    scan,      \* scan_opportunities: its position and its locals
    scan_ret,  \* scan_opportunities: Ok(table) or Raise(exception) once ended
    bt_in,     \* backtest_hold_to_expiry: opp_df and spot_df
    bt,        \* backtest_hold_to_expiry: its position and its locals
    bt_ret,    \* backtest_hold_to_expiry: Ok(table) or Raise(exception) once ended
    hedge,     \* a candidate built by check_and_build_candidate and settled
    http,      \* a call of a retrying GET helper: its position and its attempts
    walk       \* _get_trades: its position and its locals

scanVars == <<scan_in, scan, scan_ret>>
btVars == <<bt_in, bt, bt_ret>>
vars == <<fcall, rt, bcall, scanVars, btVars, hedge, http, walk>>

IdleCall == [fn |-> "none", args |-> <<>>, ret |-> None]
IdleRt == [stage |-> "idle"]
IdleBuild == [kw |-> {}, edge_epsilon |-> Zero, pb_clip |-> Zero,
              args |-> None, ret |-> None]
IdleScan == [pc |-> "idle"]
IdleBacktest == [pc |-> "idle"]
IdleHedge == [stage |-> "idle"]
IdleHttp == [pc |-> "idle"]
IdleWalk == [pc |-> "idle"]

\* Nothing has been called yet.
InitIdle ==
    /\ fcall = IdleCall
    /\ rt = IdleRt
    /\ bcall = IdleBuild
    /\ scan_in = None /\ scan = IdleScan /\ scan_ret = None
    /\ bt_in = None /\ bt = IdleBacktest /\ bt_ret = None
    /\ hedge = IdleHedge /\ http = IdleHttp /\ walk = IdleWalk

----------------------------------------------------------------------------
(* Input grids *)

MaxMoney == 4
PbDen == 4

\* USD amounts: strikes, spots, premiums, fees (negative, zero and positive).
Money == {R(k) : k \in -1 .. MaxMoney}
PosMoney == {m \in Money : RLt(Zero, m)}
NonNegMoney == {m \in Money : RLe(Zero, m)}
\* Binary prices, from below 0 to above 1.
Prices == {Rat(k, PbDen) : k \in -1 .. PbDen + 1}
UnitPrices == {p \in Prices : RLt(Zero, p) /\ RLt(p, One)}
\* Contract quantities.
Quantities == {R(-1), Zero, Rat(1, 2), One, R(2)}
PosQuantities == {q \in Quantities : RLt(Zero, q)}
OptionTypes == {"call", "put"}
\* Vanilla premiums given to the payoff functions (they are not validated).
Premiums == {R(-1), Zero, R(2)}
\* Values of E given to the payoff functions: 0, 1 and two that are neither.
PayoffOutcomes == {-1, 0, 1, 2}

----------------------------------------------------------------------------
(* SpecFn: the pure functions applied to arguments of the grids *)

Call_infer_direction ==
    /\ fcall.fn = "none"
    /\ \E spot \in Money, Kb \in Money :
          fcall' = [fn |-> "infer_direction", args |-> <<spot, Kb>>,
                    ret |-> infer_direction(spot, Kb)]
    /\ UNCHANGED <<rt, bcall, scanVars, btVars, hedge, http, walk>>

Call_binary_qty_to_cover_vanilla ==
    /\ fcall.fn = "none"
    /\ \E Qv \in Quantities, Pv_usd \in Money, fee_usd \in Money, Pb \in Prices :
          fcall' = [fn |-> "binary_qty_to_cover_vanilla",
                    args |-> <<Qv, Pv_usd, fee_usd, Pb>>,
                    ret |-> binary_qty_to_cover_vanilla(Qv, Pv_usd, fee_usd, Pb)]
    /\ UNCHANGED <<rt, bcall, scanVars, btVars, hedge, http, walk>>

Call_kv_bound_for_call_case ==
    /\ fcall.fn = "none"
    /\ \E Kb \in Money, Qv \in Quantities, Pv_usd \in Money, Pb \in Prices :
          fcall' = [fn |-> "kv_bound_for_call_case",
                    args |-> <<Kb, Qv, Pv_usd, Pb>>,
                    ret |-> kv_bound_for_call_case(Kb, Qv, Pv_usd, Pb)]
    /\ UNCHANGED <<rt, bcall, scanVars, btVars, hedge, http, walk>>

Call_kv_bound_for_put_case ==
    /\ fcall.fn = "none"
    /\ \E Kb \in Money, Qv \in Quantities, Pv_usd \in Money, Pb \in Prices :
          fcall' = [fn |-> "kv_bound_for_put_case",
                    args |-> <<Kb, Qv, Pv_usd, Pb>>,
                    ret |-> kv_bound_for_put_case(Kb, Qv, Pv_usd, Pb)]
    /\ UNCHANGED <<rt, bcall, scanVars, btVars, hedge, http, walk>>

Call_binary_outcome ==
    /\ fcall.fn = "none"
    /\ \E binary_type \in OptionTypes \cup {"digital"},
          S_T \in Money, Kb \in Money :
          fcall' = [fn |-> "_binary_outcome", args |-> <<binary_type, S_T, Kb>>,
                    ret |-> _binary_outcome(binary_type, S_T, Kb)]
    /\ UNCHANGED <<rt, bcall, scanVars, btVars, hedge, http, walk>>

Call_payoff_long_call_binary_put ==
    /\ fcall.fn = "none"
    /\ \E S_T \in Money, K_v \in Money, P_v_usd \in Premiums,
          Q_v \in Quantities, P_b \in Prices, Q_b \in Quantities,
          E \in PayoffOutcomes :
          fcall' = [fn |-> "payoff_long_call_binary_put",
                    args |-> <<S_T, K_v, P_v_usd, Q_v, P_b, Q_b, E>>,
                    ret |-> payoff_long_call_binary_put(
                                S_T, K_v, P_v_usd, Q_v, P_b, Q_b, E)]
    /\ UNCHANGED <<rt, bcall, scanVars, btVars, hedge, http, walk>>

Call_payoff_long_put_binary_call ==
    /\ fcall.fn = "none"
    /\ \E S_T \in Money, K_v \in Money, P_v_usd \in Premiums,
          Q_v \in Quantities, P_b \in Prices, Q_b \in Quantities,
          E \in PayoffOutcomes :
          fcall' = [fn |-> "payoff_long_put_binary_call",
                    args |-> <<S_T, K_v, P_v_usd, Q_v, P_b, Q_b, E>>,
                    ret |-> payoff_long_put_binary_call(
                                S_T, K_v, P_v_usd, Q_v, P_b, Q_b, E)]
    /\ UNCHANGED <<rt, bcall, scanVars, btVars, hedge, http, walk>>

\* The arguments that C21 raises one at a time.
RaisedArguments == {"Qv", "Pv_usd", "fee_usd"}

\* binary_qty_to_cover_vanilla applied twice: to (Qv, Pv_usd, fee_usd, Pb) and
\* to the same arguments with the one named by which raised to higher.  The
\* arguments are those of the grids, and the large premium with no fee whose
\* fee is raised to the small one.
Compare_binary_qty_to_cover_vanilla ==
    /\ fcall.fn = "none"
    /\ \E Qv \in Quantities, Pv_usd \in Money \cup {LargePremium},
          fee_usd \in Money, Pb \in Prices, which \in RaisedArguments,
          higher \in Quantities \cup Money \cup {SmallFee} :
          LET Qv2 == IF which = "Qv" THEN higher ELSE Qv
              Pv_usd2 == IF which = "Pv_usd" THEN higher ELSE Pv_usd
              fee_usd2 == IF which = "fee_usd" THEN higher ELSE fee_usd
          IN  /\ (Pv_usd = LargePremium \/ higher = SmallFee)
                    => /\ Pv_usd = LargePremium /\ higher = SmallFee
                       /\ which = "fee_usd" /\ fee_usd = Zero
              /\ which = "Qv" => higher \in Quantities /\ RLt(Qv, higher)
              /\ which = "Pv_usd" => higher \in Money /\ RLt(Pv_usd, higher)
              /\ which = "fee_usd" => higher \in Money \cup {SmallFee}
                                         /\ RLt(fee_usd, higher)
              /\ fcall' = [fn |-> "binary_qty_to_cover_vanilla, twice",
                           args |-> <<Qv, Pv_usd, fee_usd, Pb, which, higher>>,
                           ret |-> <<binary_qty_to_cover_vanilla(
                                         Qv, Pv_usd, fee_usd, Pb),
                                     binary_qty_to_cover_vanilla(
                                         Qv2, Pv_usd2, fee_usd2, Pb)>>]
    /\ UNCHANGED <<rt, bcall, scanVars, btVars, hedge, http, walk>>

InitFn == InitIdle

NextFn ==
    \/ Call_infer_direction
    \/ Call_binary_qty_to_cover_vanilla
    \/ Call_kv_bound_for_call_case
    \/ Call_kv_bound_for_put_case
    \/ Call_binary_outcome
    \/ Call_payoff_long_call_binary_put
    \/ Call_payoff_long_put_binary_call
    \/ Compare_binary_qty_to_cover_vanilla

SpecFn == InitFn /\ [][NextFn]_vars

----------------------------------------------------------------------------
(* SpecRoundTrip: a pairing sized at the admissibility boundary and settled *)

\* The binary leg that goes with a vanilla leg (strategy.py, direction rule).
BinaryLegOf(vanilla_type) == IF vanilla_type = "call" THEN "put" ELSE "call"

\* Kv is put on the bound of the matching strike-bound function and the
\* binary leg is sized by binary_qty_to_cover_vanilla.
RtSize ==
    /\ rt.stage = "idle"
    /\ \E vt \in OptionTypes, Kb \in PosMoney, Pb \in UnitPrices,
          Pv_usd \in NonNegMoney, Qv \in PosQuantities, fee_usd \in NonNegMoney :
          /\ RLt(Zero, RAdd(Pv_usd, fee_usd))
          /\ rt' = [stage |-> "sized", vanilla_type |-> vt,
                    binary_type |-> BinaryLegOf(vt),
                    Kb |-> Kb, Pb |-> Pb, Pv_usd |-> Pv_usd, Qv |-> Qv,
                    fee_usd |-> fee_usd,
                    Kv |-> IF vt = "call"
                           THEN kv_bound_for_call_case(Kb, Qv, Pv_usd, Pb)
                           ELSE kv_bound_for_put_case(Kb, Qv, Pv_usd, Pb),
                    Qb |-> binary_qty_to_cover_vanilla(Qv, Pv_usd, fee_usd, Pb)]
    /\ UNCHANGED <<fcall, bcall, scanVars, btVars, hedge, http, walk>>

\* The terminal spot S_T arrives; E is the proxy outcome of the binary leg and
\* the payoff is that of the matching pairing: payoff is its exact value and
\* payoff_sign the sign of the float the payoff function returns.
RtSettle ==
    /\ rt.stage = "sized"
    /\ rt.Kv.tag = "ok" /\ rt.Qb.tag = "ok"
    /\ \E S_T \in PosMoney :
          LET E == _binary_outcome(rt.binary_type, S_T, rt.Kb).val
              payoff == IF rt.vanilla_type = "call"
                        THEN payoff_long_call_binary_put(
                                 S_T, rt.Kv.val, rt.Pv_usd, rt.Qv,
                                 rt.Pb, rt.Qb.val, E)
                        ELSE payoff_long_put_binary_call(
                                 S_T, rt.Kv.val, rt.Pv_usd, rt.Qv,
                                 rt.Pb, rt.Qb.val, E)
          IN  rt' = [rt EXCEPT !.stage = "settled"] @@
                    [S_T |-> S_T, E |-> E, payoff |-> payoff,
                     payoff_sign |->
                         IF payoff.tag = "ok"
                         THEN BoundaryFloatSign(payoff.val,
                                  <<rt.vanilla_type, rt.Kb, rt.Pb, rt.Pv_usd,
                                    rt.Qv, rt.fee_usd, S_T>>)
                         ELSE 0]
    /\ UNCHANGED <<fcall, bcall, scanVars, btVars, hedge, http, walk>>

InitRoundTrip == InitIdle

NextRoundTrip == RtSize \/ RtSettle

SpecRoundTrip == InitRoundTrip /\ [][NextRoundTrip]_vars

----------------------------------------------------------------------------
(* SpecBuild: check_and_build_candidate called on arguments of the grids *)

\* The vanilla types a caller passes: the two labels, and one not normalized.
VanillaTypeArgs == OptionTypes \cup {"CALL"}

BuilderArgs ==
    [date : {"2024-01-01"}, underlying : {"BTC"}, expiry : {"2024-02-01"},
     spot : {R(-1), Zero, R(2)},
     Kb : {R(1), R(2), R(3)},
     Pb : {Zero, Rat(1, 2), One},
     Kv : {R(0), R(1), R(2), R(3), R(4), R(5)},
     vanilla_type : VanillaTypeArgs,
     Pv_usd : {R(-1), Zero, R(1)},
     Qv : {Zero, One, R(2)},
     fee_usd : {R(-1), Zero, R(1)}]

\* The keywords a caller adds to the declared ones: none (a call that follows
\* the signature) or the two knobs scan_opportunities passes.
ExtraKeywords ==
    {[kw |-> {}, edge_epsilon |-> Zero, pb_clip |-> Zero]}
    \cup {[kw |-> {"edge_epsilon", "pb_clip"}, edge_epsilon |-> e, pb_clip |-> c] :
             e \in {Zero, R(2)}, c \in {Zero, Rat(1, 4)}}

BuildCall ==
    /\ bcall.args = None
    /\ \E a \in BuilderArgs, x \in ExtraKeywords :
          bcall' = [kw |-> x.kw, edge_epsilon |-> x.edge_epsilon,
                    pb_clip |-> x.pb_clip, args |-> a,
                    ret |-> call_check_and_build_candidate(
                                BuilderParams \cup x.kw, a)]
    /\ UNCHANGED <<fcall, rt, scanVars, btVars, hedge, http, walk>>

InitBuild == InitIdle

NextBuild == BuildCall

SpecBuild == InitBuild /\ [][NextBuild]_vars

----------------------------------------------------------------------------
(* SpecScan: scan_opportunities on tables of the row sets below *)

MaxSpotRows == 1
MaxBinaryRows == 2
MaxVanillaRows == 2

SeqsUpTo(S, n) == UNION {[1 .. k -> S] : k \in 0 .. n}

SpotRowSet ==
    {[date |-> "2024-01-01", underlying |-> "BTC", spot |-> R(70000)],
     [date |-> " 2024-01-01", underlying |-> "btc ", spot |-> R(70000)]}

BinaryRowSet ==
    {[date |-> "2024-01-01", underlying |-> "BTC", expiry |-> "2024-02-01",
      strike |-> R(65000), price |-> Rat(3, 10)],
     [date |-> "2024-01-01", underlying |-> "BTC", expiry |-> "2024-02-01",
      strike |-> R(75000), price |-> Rat(1, 2)],
     [date |-> "2024-01-01", underlying |-> "ETH", expiry |-> "2024-02-01",
      strike |-> R(2500), price |-> Rat(2, 5)]}

VanillaRowSet ==
    {[date |-> "2024-01-01", underlying |-> "BTC", expiry |-> "2024-02-01",
      strike |-> R(60000), type |-> "call",
      price_usd |-> R(2000), price |-> Missing],
     [date |-> "2024-01-01", underlying |-> "btc ", expiry |-> "2024-02-02",
      strike |-> R(64000), type |-> " Call",
      price_usd |-> Missing, price |-> Rat(1, 35)],
     [date |-> "2024-01-01", underlying |-> "BTC", expiry |-> "2024-01-31",
      strike |-> R(60000), type |-> "call",
      price_usd |-> Missing, price |-> Missing],
     [date |-> "2024-01-01", underlying |-> "BTC", expiry |-> "2024-02-04",
      strike |-> R(80000), type |-> "put",
      price_usd |-> R(2000), price |-> Rat(1, 70)],
     [date |-> "2024-01-01", underlying |-> "BTC", expiry |-> "2024-02-04",
      strike |-> R(60000), type |-> "call",
      price_usd |-> R(2000), price |-> Missing],
     [date |-> "2024-01-01", underlying |-> "BTC", expiry |-> "tbd",
      strike |-> R(60000), type |-> "call",
      price_usd |-> R(2000), price |-> Missing]}

\* The options of run_scan.py.
RunScanNearestExpiryDays == 7

KnobNames == {"edge_epsilon", "pb_clip", "nearest_expiry_days"}

\* The options a caller passes: none of the three knobs (the defaults), all
\* three set to 0, or those of run_scan.py.
ScanConfigs ==
    {DefaultConfig,
     [DefaultConfig EXCEPT !.edge_epsilon = Zero, !.pb_clip = Zero,
                           !.nearest_expiry_days = 0, !.overrides = KnobNames],
     [DefaultConfig EXCEPT !.nearest_expiry_days = RunScanNearestExpiryDays,
                           !.overrides = KnobNames]}

\* Lines 42-65: the locals of a call on three frames: the copies with
\* normalized keys, the spot map, rows = [].
ScanLocals(spot_df, binary_df, vanilla_df) ==
    [pc |-> "binaries",
     spot_map |-> SpotMapOf(NormalizeSpot(spot_df)),
     binary |-> NormalizeBinary(binary_df),
     vanilla |-> NormalizeVanilla(vanilla_df),
     bi |-> 1, spot_val |-> Missing,
     v_slice |-> <<>>, vi |-> 1,
     rows |-> <<>>, cands |-> <<>>]

\* The caller's three frames once a call has normalized its keys.
CallerFrames(t) ==
    [t EXCEPT !.spot_df = CallerFrameAfter(@, NormalizeSpot(@)),
              !.binary_df = CallerFrameAfter(@, NormalizeBinary(@)),
              !.vanilla_df = CallerFrameAfter(@, NormalizeVanilla(@))]

\* A key written another way: with or without leading or trailing
\* whitespace, and for underlyings and type labels in another letter case.
RespellKey(k) ==
    CASE k = "2024-01-01" -> " 2024-01-01"
      [] k = " 2024-01-01" -> "2024-01-01"
      [] k = "2024-02-01" -> "2024-02-01 "
      [] k = "2024-02-01 " -> "2024-02-01"
      [] k = "BTC" -> "btc "
      [] k = "btc " -> "BTC"
      [] k = "call" -> " Call"
      [] k = " Call" -> "call"
      [] k = "put" -> "PUT"
      [] OTHER -> k

\* The three frames with every key written another way.
Respelled(t) ==
    [t EXCEPT
       !.spot_df = [i \in 1 .. Len(@) |->
           [@[i] EXCEPT !.date = RespellKey(@), !.underlying = RespellKey(@)]],
       !.binary_df = [i \in 1 .. Len(@) |->
           [@[i] EXCEPT !.date = RespellKey(@), !.underlying = RespellKey(@),
                        !.expiry = RespellKey(@)]],
       !.vanilla_df = [i \in 1 .. Len(@) |->
           [@[i] EXCEPT !.date = RespellKey(@), !.underlying = RespellKey(@),
                        !.expiry = RespellKey(@), !.type = RespellKey(@)]]]

\* Quote b has a spot in the frames t: an observation of its (date,
\* underlying).
HasSpot(t, b) ==
    \E j \in 1 .. Len(t.spot_df) :
       /\ Strip(t.spot_df[j].date) = Strip(b.date)
       /\ Upper(Strip(t.spot_df[j].underlying)) = Upper(Strip(b.underlying))

\* The three frames without the binary quotes that have no spot.
WithoutSpotless(t) ==
    [t EXCEPT !.binary_df = SelectSeq(@, LAMBDA b : HasSpot(t, b))]

\* A first call of scan_opportunities: lines 42-65.  given keeps the frames
\* as they were passed.
ScanBegin ==
    /\ scan.pc = "idle"
    /\ \E spot_df \in SeqsUpTo(SpotRowSet, MaxSpotRows),
          binary_df \in SeqsUpTo(BinaryRowSet, MaxBinaryRows),
          vanilla_df \in SeqsUpTo(VanillaRowSet, MaxVanillaRows),
          cfg \in ScanConfigs :
          LET t == [spot_df |-> spot_df, binary_df |-> binary_df,
                    vanilla_df |-> vanilla_df, cfg |-> cfg]
          IN  /\ scan_in' = CallerFrames(t)
              /\ scan' = ScanLocals(spot_df, binary_df, vanilla_df)
                            @@ [run |-> "first", first |-> None, first_calls |-> <<>>,
                                given |-> t]
    /\ scan_ret' = scan_ret
    /\ UNCHANGED <<fcall, rt, bcall, btVars, hedge, http, walk>>

\* A second call, once the first has ended, on the same three frames and
\* the same options.
ScanAgain ==
    /\ scan.pc \in {"returned", "raised"}
    /\ scan.run = "first"
    /\ scan_in' = CallerFrames(scan_in)
    /\ scan' = ScanLocals(scan_in.spot_df, scan_in.binary_df,
                          scan_in.vanilla_df)
                  @@ [run |-> "again", first |-> scan_ret,
                      first_calls |-> scan.cands, given |-> scan.given]
    /\ scan_ret' = None
    /\ UNCHANGED <<fcall, rt, bcall, btVars, hedge, http, walk>>

\* A second call, once the first has ended, on frames that differ from
\* those of the first in the writing of their keys only.
ScanRespelled ==
    /\ scan.pc \in {"returned", "raised"}
    /\ scan.run = "first"
    /\ LET t == Respelled(scan_in)
       IN  /\ scan_in' = CallerFrames(t)
           /\ scan' = ScanLocals(t.spot_df, t.binary_df, t.vanilla_df)
                         @@ [run |-> "respelled", first |-> scan_ret,
                             first_calls |-> scan.cands, given |-> scan.given]
    /\ scan_ret' = None
    /\ UNCHANGED <<fcall, rt, bcall, btVars, hedge, http, walk>>

\* A second call, once the first has ended, on the frames of the first less
\* the binary quotes that have no spot (there is one).
ScanWithoutSpotless ==
    /\ scan.pc \in {"returned", "raised"}
    /\ scan.run = "first"
    /\ \E k \in 1 .. Len(scan_in.binary_df) :
          ~HasSpot(scan_in, scan_in.binary_df[k])
    /\ LET t == WithoutSpotless(scan_in)
       IN  /\ scan_in' = CallerFrames(t)
           /\ scan' = ScanLocals(t.spot_df, t.binary_df, t.vanilla_df)
                         @@ [run |-> "without", first |-> scan_ret,
                             first_calls |-> scan.cands, given |-> scan.given]
    /\ scan_ret' = None
    /\ UNCHANGED <<fcall, rt, bcall, btVars, hedge, http, walk>>

\* Lines 68-116: the next binary quote, its spot and its slice of vanilla rows.
ScanBinary ==
    /\ scan.pc = "binaries"
    /\ scan.bi <= Len(scan.binary)
    /\ LET b == scan.binary[scan.bi]
           s == DictGet(scan.spot_map, <<b.date, b.underlying>>)
           Kb == b.strike
           required_vanilla_type == IF RLt(Kb, s) THEN "call" ELSE "put"
           v_slice == VanillaSlice(scan.vanilla, b.date, b.underlying, b.expiry,
                                   required_vanilla_type,
                                   scan_in.cfg.nearest_expiry_days)
       IN  IF s = Missing
           THEN scan' = [scan EXCEPT !.bi = @ + 1]
           ELSE IF v_slice = <<>>
           THEN scan' = [scan EXCEPT !.bi = @ + 1]
           ELSE scan' = [scan EXCEPT !.pc = "vanillas", !.spot_val = s,
                                     !.v_slice = v_slice, !.vi = 1]
    /\ UNCHANGED <<fcall, rt, bcall, scan_in, scan_ret, btVars, hedge, http, walk>>

\* The end of one pass of the inner loop: the next vanilla row, or the next
\* binary quote after the last one.
NextVanilla(sc) ==
    IF sc.vi < Len(sc.v_slice)
    THEN [sc EXCEPT !.vi = @ + 1]
    ELSE [sc EXCEPT !.pc = "binaries", !.bi = @ + 1]

\* Lines 119-171: one vanilla row of the slice: its premium, the call of
\* check_and_build_candidate, the two filters, the row appended.
ScanVanilla ==
    /\ scan.pc = "vanillas"
    /\ LET b == scan.binary[scan.bi]
           v == scan.v_slice[scan.vi]
           Pv_usd == PremiumUsd(v, scan.spot_val)
           a == [date |-> b.date, underlying |-> b.underlying,
                 expiry |-> v.expiry, spot |-> scan.spot_val,
                 Kb |-> b.strike, Pb |-> b.price, Kv |-> v.strike,
                 vanilla_type |-> v.type, Pv_usd |-> Pv_usd,
                 Qv |-> scan_in.cfg.Qv, fee_usd |-> scan_in.cfg.fee_usd]
           cand == call_check_and_build_candidate(ScannerCallKeywords, a)
           called == [scan EXCEPT !.cands = Append(@,
                         [args |-> a, v |-> v,
                          edge_epsilon |-> scan_in.cfg.edge_epsilon,
                          pb_clip |-> scan_in.cfg.pb_clip,
                          ret |-> cand])]
       IN  IF Pv_usd = Missing
           THEN scan' = NextVanilla(scan) /\ scan_ret' = scan_ret
           ELSE IF cand.tag = "raise"
           THEN scan' = [called EXCEPT !.pc = "raised"] /\ scan_ret' = cand
           ELSE IF cand.val.tag = "None"
           THEN scan' = NextVanilla(called) /\ scan_ret' = scan_ret
           ELSE IF RLt(cand.val.edge, scan_in.cfg.min_edge)
           THEN scan' = NextVanilla(called) /\ scan_ret' = scan_ret
           ELSE /\ scan' = NextVanilla([called EXCEPT !.rows =
                              Append(@, OpportunityRow(cand.val))])
                /\ scan_ret' = scan_ret
    /\ UNCHANGED <<fcall, rt, bcall, scan_in, btVars, hedge, http, walk>>

\* Lines 173-179: the table of the rows, sorted.
ScanReturn ==
    /\ scan.pc = "binaries"
    /\ scan.bi > Len(scan.binary)
    /\ scan' = [scan EXCEPT !.pc = "returned"]
    /\ scan_ret' = Ok(SortOpportunities(scan.rows))
    /\ UNCHANGED <<fcall, rt, bcall, scan_in, btVars, hedge, http, walk>>

InitScan == InitIdle

NextScan ==
    \/ ScanBegin
    \/ ScanBinary
    \/ ScanVanilla
    \/ ScanReturn
    \/ ScanAgain
    \/ ScanRespelled
    \/ ScanWithoutSpotless

SpecScan == InitScan /\ [][NextScan]_vars

----------------------------------------------------------------------------
(* SpecBacktest: backtest_hold_to_expiry on tables of the row sets below *)

MaxOppRows == 2
MaxTerminalSpotRows == 1

\* The accepted scenario of section 8 as arguments of the builder.
ScenarioArgs ==
    [date |-> "2024-01-01", underlying |-> "BTC", expiry |-> "2024-02-01",
     spot |-> R(70000), Kb |-> R(65000), Pb |-> Rat(3, 10), Kv |-> R(60000),
     vanilla_type |-> "call", Pv_usd |-> R(2000), Qv |-> One, fee_usd |-> Zero]

\* A row of the opportunities file read by run_backtest.py, carrying the
\* fields of the candidate check_and_build_candidate returns on a when it is
\* called as its signature declares. scan_opportunities does not write such
\* a row (its call of the builder raises TypeError): backtest_hold_to_expiry
\* takes whatever table its caller read from the file.
CandidateRow(a) == OpportunityRow(check_and_build_candidate(a).val)

\* Rows of opp_df: candidates of the builder, and rows whose leg types were
\* edited in the file.
OppRowSet ==
    {CandidateRow(ScenarioArgs),
     CandidateRow([ScenarioArgs EXCEPT !.date = "2023-12-31", !.Kb = R(75000),
                      !.Pb = Rat(1, 2), !.Kv = R(80000),
                      !.vanilla_type = "put"]),
     CandidateRow([ScenarioArgs EXCEPT !.underlying = "ETH",
                      !.expiry = "2024-02-02"]),
     CandidateRow([ScenarioArgs EXCEPT !.Pv_usd = Zero]),
     [CandidateRow(ScenarioArgs) EXCEPT !.binary_type = "digital"],
     [CandidateRow(ScenarioArgs) EXCEPT !.vanilla_type = "put"]}

TerminalSpotRowSet ==
    {[date |-> "2024-02-01", underlying |-> "BTC", spot |-> R(58000)],
     [date |-> "2024-02-01", underlying |-> "btc ", spot |-> R(66000)],
     [date |-> "2024-02-01", underlying |-> "BTC", spot |-> R(65000)],
     [date |-> "2024-02-01 ", underlying |-> "BTC", spot |-> R(75000)],
     [date |-> "2024-01-01", underlying |-> "BTC", spot |-> R(70000)]}

\* Lines 54-62: the copy with normalized keys, the spot map, cum = 0.
BtBegin ==
    /\ bt.pc = "idle"
    /\ \E opp_df \in SeqsUpTo(OppRowSet, MaxOppRows),
          spot_df \in SeqsUpTo(TerminalSpotRowSet, MaxTerminalSpotRows) :
          /\ bt_in' = [opp_df |-> opp_df, spot_df |-> spot_df]
          /\ bt' = [pc |-> "rows", opp |-> NormalizeOpp(opp_df),
                    smap |-> _spot_map(spot_df), i |-> 1,
                    rows |-> <<>>, cum |-> Zero]
    /\ UNCHANGED <<fcall, rt, bcall, scanVars, bt_ret, hedge, http, walk>>

\* Lines 64-136: one row of opp: its terminal spot, the proxy outcome, the
\* payoff of its pairing, the running sum, the row appended.
BtRow ==
    /\ bt.pc = "rows"
    /\ bt.i <= Len(bt.opp)
    /\ LET r == bt.opp[bt.i]
           S_T == TerminalSpot(bt.smap, r)
           binary_type == Strip(Lower(r.binary_type))
           vanilla_type == Strip(Lower(r.vanilla_type))
           E == _binary_outcome(binary_type, S_T, r.Kb)
           pnl == DispatchPayoff(vanilla_type, binary_type, S_T, r.Kv,
                                 r.Pv_usd, r.Qv, r.Pb, r.Qb, E.val)
       IN  IF S_T = Missing
           THEN bt' = [bt EXCEPT !.i = @ + 1] /\ bt_ret' = bt_ret
           ELSE IF E.tag = "raise"
           THEN bt' = [bt EXCEPT !.pc = "raised"] /\ bt_ret' = E
           ELSE IF pnl.tag = "raise"
           THEN bt' = [bt EXCEPT !.pc = "raised"] /\ bt_ret' = pnl
           ELSE IF pnl.val = Missing
           THEN bt' = [bt EXCEPT !.i = @ + 1] /\ bt_ret' = bt_ret
           ELSE LET cum == RAdd(bt.cum, pnl.val)
                IN  /\ bt' = [bt EXCEPT !.i = @ + 1, !.cum = cum,
                                 !.rows = Append(@, BacktestRow(r, S_T,
                                     binary_type, vanilla_type, E.val,
                                     pnl.val, cum))]
                    /\ bt_ret' = bt_ret
    /\ UNCHANGED <<fcall, rt, bcall, scanVars, bt_in, hedge, http, walk>>

\* Lines 138-143: the table of the rows, sorted.
BtReturn ==
    /\ bt.pc = "rows"
    /\ bt.i > Len(bt.opp)
    /\ bt' = [bt EXCEPT !.pc = "returned"]
    /\ bt_ret' = Ok(SortBacktest(bt.rows))
    /\ UNCHANGED <<fcall, rt, bcall, scanVars, bt_in, hedge, http, walk>>

InitBacktest == InitIdle

NextBacktest == BtBegin \/ BtRow \/ BtReturn

SpecBacktest == InitBacktest /\ [][NextBacktest]_vars

----------------------------------------------------------------------------
(* SpecHedge: a candidate of check_and_build_candidate held to expiry *)

MaxTerminal == 20

\* Terminal spots: below, at, between and above every strike of HedgeArgs.
TerminalSpots == {R(k) : k \in 1 .. MaxTerminal}

\* Quotes on both sides of a spot of 10: a binary strike below it (a vanilla
\* call is required) and one above it (a vanilla put is required).
HedgeArgs ==
    [date : {"2024-01-01"}, underlying : {"BTC"}, expiry : {"2024-02-01"},
     spot : {R(10)},
     Kb : {R(8), R(12)},
     Pb : {Rat(3, 10), Rat(1, 2)},
     Kv : {R(1), R(3), R(5), R(7), R(13), R(15), R(17), R(19)},
     vanilla_type : OptionTypes,
     Pv_usd : {Zero, R(1), R(3)},
     Qv : {One, R(2)},
     fee_usd : {Zero, One}]

\* The builder is called as its signature declares.
HedgeBuild ==
    /\ hedge.stage = "idle"
    /\ \E a \in HedgeArgs :
          hedge' = [stage |-> "built", args |-> a,
                    cand |-> call_check_and_build_candidate(BuilderParams, a)]
    /\ UNCHANGED <<fcall, rt, bcall, scanVars, btVars, http, walk>>

\* backtest.py, lines 88-112, for the accepted candidate and a terminal spot
\* S_T: the proxy outcome E and the payoff of the pairing. pnl is the exact
\* value of the payoff and pnl_sign the sign of the float.
HedgeSettle ==
    /\ hedge.stage = "built"
    /\ hedge.cand.tag = "ok" /\ hedge.cand.val # None
    /\ \E S_T \in TerminalSpots :
          LET c == hedge.cand.val
              E == _binary_outcome(c.binary_type, S_T, c.Kb)
              pnl == DispatchPayoff(c.vanilla_type, c.binary_type, S_T, c.Kv,
                                    c.Pv_usd, c.Qv, c.Pb, c.Qb, E.val)
              signs == IF pnl.tag = "ok" /\ pnl.val # Missing
                       THEN FloatSigns(pnl.val, c, S_T, E.val)
                       ELSE {0}
          IN  \E pnl_sign \in signs :
                 hedge' = [hedge EXCEPT !.stage = "settled"] @@
                          [S_T |-> S_T, E |-> E.val, pnl |-> pnl,
                           pnl_sign |-> pnl_sign]
    /\ UNCHANGED <<fcall, rt, bcall, scanVars, btVars, http, walk>>

InitHedge == InitIdle

NextHedge == HedgeBuild \/ HedgeSettle

SpecHedge == InitHedge /\ [][NextHedge]_vars

----------------------------------------------------------------------------
(* SpecFetch: the retrying GET helpers, src/data/fetch_deribit.py (_get) and
   src/data/fetch_polymarket.py (_get_json, _get_json_allow_404) *)

MaxRetries == 3

Helpers == {"_get", "_get_json", "_get_json_allow_404"}

\* What one HTTP attempt meets. The session's get raises (a network error, a
\* timeout, or another exception of the HTTP library), or a response arrives
\* with a status and a body.
TransportErrors == {"ConnectionError", "Timeout", "TooManyRedirects"}
Statuses == {200, 400, 404, 429, 500, 503}
\* Bodies: not JSON; a JSON object with a "result"; a JSON object with a
\* non-empty "error"; a JSON list.
Bodies == {"not json", "result", "error", "list"}
Responses ==
    {[raises |-> e] : e \in TransportErrors}
    \cup {[status |-> st, body |-> b] : st \in Statuses, b \in Bodies}

IsTransportError(resp) == "raises" \in DOMAIN resp

\* r.json() of a body that is JSON.
Json(body) ==
    IF body = "result" THEN [result |-> "x"]
    ELSE IF body = "error" THEN [error |-> "e"]
    ELSE <<"x">>

\* _sleep_backoff(i) = min(cap, base * 2**i) with base 1.5 and cap 20.0.
_sleep_backoff(i) ==
    LET d == RMul(Rat(3, 2), R(2 ^ i))
    IN  IF RLt(R(20), d) THEN R(20) ELSE d

\* The body of the try block for one response, and what the except clause
\* does with an exception: "return" a value, "retry" (the exception is
\* caught, last_err is set and the helper sleeps), or "propagate" (the
\* exception is not one of the caught classes).
\*   _get       catches Timeout, ConnectionError, HTTPError, ValueError,
\*              RuntimeError; a JSON object with an "error" raises
\*              RuntimeError; it returns j["result"] of an object that has
\*              one, j otherwise.
\*   _get_json  catches Timeout, ConnectionError, HTTPError, ValueError and
\*              returns j.
\*   _get_json_allow_404  catches the same; a 404 returns
\*              (None, 404, "Not Found") at once; it returns
\*              (j, status, None).
\* raise_for_status() raises HTTPError for every status from 400 to 599, and
\* r.json() raises a ValueError for a body that is not JSON.
Attempt(helper, resp) ==
    IF IsTransportError(resp)
    THEN IF resp.raises \in {"ConnectionError", "Timeout"}
         THEN [kind |-> "retry", err |-> resp.raises]
         ELSE [kind |-> "propagate", err |-> resp.raises]
    ELSE IF helper = "_get_json_allow_404" /\ resp.status = 404
    THEN [kind |-> "return", val |-> <<None, 404, "Not Found">>]
    ELSE IF resp.status = 429 \/ (500 <= resp.status /\ resp.status <= 599)
    THEN [kind |-> "retry", err |-> "HTTPError"]
    ELSE IF 400 <= resp.status /\ resp.status < 600
    THEN [kind |-> "retry", err |-> "HTTPError"]
    ELSE IF resp.body = "not json"
    THEN [kind |-> "retry", err |-> "ValueError"]
    ELSE IF helper = "_get" /\ resp.body = "error"
    THEN [kind |-> "retry", err |-> "RuntimeError"]
    ELSE IF helper = "_get"
    THEN [kind |-> "return",
          val |-> IF resp.body = "result" THEN Json(resp.body).result
                  ELSE Json(resp.body)]
    ELSE IF helper = "_get_json"
    THEN [kind |-> "return", val |-> Json(resp.body)]
    ELSE [kind |-> "return", val |-> <<Json(resp.body), resp.status, None>>]

\* What the helper does once the loop over range(retries) is used up: _get
\* and _get_json raise RuntimeError, _get_json_allow_404 returns
\* (None, last_status, message), the message being str(last_err), or
\* "unknown error" without a last_err.
Exhausted(helper, last_status, message) ==
    IF helper = "_get_json_allow_404"
    THEN Ok(<<None, last_status, message>>)
    ELSE Raise("RuntimeError")

EndOf(ret) == IF ret.tag = "raise" THEN "raised" ELSE "returned"

\* The helper is called: last_err = None (and last_status = None), and the
\* loop over range(retries) starts. With retries = 0 the loop body never
\* runs and the end of the function is reached at once.
GetCall ==
    /\ http.pc = "idle"
    /\ \E helper \in Helpers, retries \in 0 .. MaxRetries :
          LET end == Exhausted(helper, None, "unknown error")
          IN  http' = [pc |-> IF retries = 0 THEN EndOf(end) ELSE "attempt",
                       helper |-> helper, retries |-> retries, i |-> 0,
                       gets |-> 0, log |-> <<>>, slept |-> <<>>,
                       last_status |-> None, last_err |-> None,
                       ret |-> IF retries = 0 THEN end ELSE None]
    /\ UNCHANGED <<fcall, rt, bcall, scanVars, btVars, hedge, walk>>

\* Pass i of the loop starts: _session().get(...) sends the GET and blocks
\* until a response or an exception.
GetSend ==
    /\ http.pc = "attempt"
    /\ http' = [http EXCEPT !.pc = "in flight", !.gets = @ + 1]
    /\ UNCHANGED <<fcall, rt, bcall, scanVars, btVars, hedge, walk>>

\* The GET ends with a response or an exception: either the return, the
\* exception that leaves the helper, or last_err is set and
\* time.sleep(_sleep_backoff(i)) is entered.
GetResponse ==
    /\ http.pc = "in flight"
    /\ \E resp \in Responses :
          LET out == Attempt(http.helper, resp)
              log == Append(http.log, resp)
              last_status ==
                  IF http.helper = "_get_json_allow_404"
                         /\ ~IsTransportError(resp)
                  THEN resp.status ELSE http.last_status
          IN  IF out.kind = "return"
              THEN http' = [http EXCEPT !.pc = "returned", !.log = log,
                                        !.last_status = last_status,
                                        !.ret = Ok(out.val)]
              ELSE IF out.kind = "propagate"
              THEN http' = [http EXCEPT !.pc = "raised", !.log = log,
                                        !.ret = Raise(out.err)]
              ELSE http' = [http EXCEPT
                               !.pc = "sleeping",
                               !.log = log,
                               !.slept = Append(@, _sleep_backoff(http.i)),
                               !.last_status = last_status,
                               !.last_err = out.err]
    /\ UNCHANGED <<fcall, rt, bcall, scanVars, btVars, hedge, walk>>

\* time.sleep returns: the next pass of the loop, or after the last pass the
\* end of the function.
GetWake ==
    /\ http.pc = "sleeping"
    /\ LET end == Exhausted(http.helper, http.last_status, http.last_err)
           last == http.i + 1 = http.retries
       IN  http' = [http EXCEPT !.pc = IF last THEN EndOf(end) ELSE "attempt",
                                !.i = @ + 1,
                                !.ret = IF last THEN end ELSE @]
    /\ UNCHANGED <<fcall, rt, bcall, scanVars, btVars, hedge, walk>>

InitFetch == InitIdle

NextFetch == GetCall \/ GetSend \/ GetResponse \/ GetWake

SpecFetch == InitFetch /\ [][NextFetch]_vars

----------------------------------------------------------------------------
(* SpecTrades: _get_trades of src/data/spot.py against any API responses *)

MaxMs == 3
MaxPages == 3

Timestamps == 0 .. MaxMs

\* A page of trades as the API returns it: none, one or two trades, each
\* reduced to its timestamp. The API is not assumed to honour the request.
Pages ==
    {<<>>} \cup {<<a>> : a \in Timestamps}
           \cup {<<a, b>> : a \in Timestamps, b \in Timestamps}

\* [t for t in all_trades if start_ms <= t["timestamp"] < end_ms]
RECURSIVE InWindow(_, _, _)
InWindow(all_trades, start_ms, end_ms) ==
    IF all_trades = <<>> THEN <<>>
    ELSE LET t == Head(all_trades)
             rest == InWindow(Tail(all_trades), start_ms, end_ms)
         IN  IF start_ms <= t /\ t < end_ms THEN <<t>> \o rest ELSE rest

\* cursor_end = oldest_ts
NextCursor(cursor_end, oldest_ts) == oldest_ts

\* Lines 39-41: all_trades = [], cursor_end = end_ms.
TradesCall ==
    /\ walk.pc = "idle"
    /\ \E start_ms \in Timestamps, end_ms \in Timestamps :
          walk' = [pc |-> "paging", start_ms |-> start_ms, end_ms |-> end_ms,
                   cursor_end |-> end_ms, all_trades |-> <<>>, pages |-> 0,
                   ret |-> None]
    /\ UNCHANGED <<fcall, rt, bcall, scanVars, btVars, hedge, http>>

\* Lines 43-74: one pass of the while loop for the page the API returns, and
\* the filtered return when the loop breaks.
TradesPage ==
    /\ walk.pc = "paging"
    /\ walk.pages < MaxPages
    /\ \E trades \in Pages :
          IF trades = <<>>
          THEN walk' = [walk EXCEPT
                           !.pc = "returned", !.pages = @ + 1,
                           !.ret = Ok(InWindow(walk.all_trades, walk.start_ms,
                                               walk.end_ms))]
          ELSE LET all_trades == walk.all_trades \o trades
                   oldest_ts == trades[Len(trades)]
                   cursor_end == NextCursor(walk.cursor_end, oldest_ts)
               IN  IF oldest_ts <= walk.start_ms \/ cursor_end <= walk.start_ms
                   THEN walk' = [walk EXCEPT
                                    !.pc = "returned", !.pages = @ + 1,
                                    !.all_trades = all_trades,
                                    !.cursor_end =
                                        IF oldest_ts <= walk.start_ms THEN @
                                        ELSE cursor_end,
                                    !.ret = Ok(InWindow(all_trades,
                                                walk.start_ms, walk.end_ms))]
                   ELSE walk' = [walk EXCEPT
                                    !.pages = @ + 1,
                                    !.all_trades = all_trades,
                                    !.cursor_end = cursor_end]
    /\ UNCHANGED <<fcall, rt, bcall, scanVars, btVars, hedge, http>>

InitTrades == InitIdle

NextTrades == TradesCall \/ TradesPage

SpecTrades == InitTrades /\ [][NextTrades]_vars

----------------------------------------------------------------------------
(* Claims about check_and_build_candidate (SpecBuild) *)

BuildCalled == bcall.args # None
Accepted == BuildCalled /\ bcall.ret.tag = "ok" /\ bcall.ret.val.tag = "TradeCandidate"
Rejected == BuildCalled /\ bcall.ret.tag = "ok" /\ bcall.ret.val.tag = "None"

\* The input validation of section 4.2.
ValidInputs(a) ==
    /\ RLt(Zero, a.spot)
    /\ RLt(Zero, a.Pb) /\ RLt(a.Pb, One)
    /\ RLt(Zero, a.Qv)
    /\ RLe(Zero, a.Pv_usd)
    /\ RLe(Zero, a.fee_usd)

\* The vanilla type the direction rule of section 4.2 requires.
RequiredVanillaType(a) == IF RLt(a.Kb, a.spot) THEN "call" ELSE "put"

\* The signed edge of section 4.2 for valid inputs: bound - Kv for a call leg,
\* Kv - bound for a put leg.
SignedEdge(a) ==
    IF a.vanilla_type = "call"
    THEN RSub(kv_bound_for_call_case(a.Kb, a.Qv, a.Pv_usd, a.Pb).val, a.Kv)
    ELSE RSub(a.Kv, kv_bound_for_put_case(a.Kb, a.Qv, a.Pv_usd, a.Pb).val)

\* C2: a pair that passes input validation and has the required vanilla type
\* is accepted exactly when edge > -edge_epsilon (edge_epsilon = 0 when the
\* caller does not pass it: the strict test edge > 0), and with
\* edge_epsilon > 0 the candidate reports edge + edge_epsilon.
C2_AcceptsIffEdgeAboveTolerance ==
    (BuildCalled /\ ValidInputs(bcall.args)
        /\ bcall.args.vanilla_type = RequiredVanillaType(bcall.args))
    => LET edge == SignedEdge(bcall.args)
           eps == bcall.edge_epsilon
       IN  /\ Accepted <=> RLt(RSub(Zero, eps), edge)
           /\ (Accepted /\ RLt(Zero, eps))
                 => bcall.ret.val.edge = RAdd(edge, eps)

\* C4: every TradeCandidate returned by check_and_build_candidate has
\* 0 < Pb < 1, Qv > 0, Pv_usd >= 0, fee_usd >= 0 and spot > 0, and its legs
\* are binary put / vanilla call when Kb < spot, binary call / vanilla put
\* otherwise.
C4_CandidateInvariant ==
    Accepted
    => LET c == bcall.ret.val
       IN  /\ RLt(Zero, c.Pb) /\ RLt(c.Pb, One)
           /\ RLt(Zero, c.Qv)
           /\ RLe(Zero, c.Pv_usd)
           /\ RLe(Zero, c.fee_usd)
           /\ RLt(Zero, c.spot)
           /\ IF RLt(c.Kb, c.spot)
              THEN c.binary_type = "put" /\ c.vanilla_type = "call"
              ELSE c.binary_type = "call" /\ c.vanilla_type = "put"

\* A candidate was returned for each direction, one of them at the tie
\* Kb = spot.
C4_Witness ==
    /\ Accepted
    /\ bcall.ret.val.Kb = bcall.ret.val.spot
    /\ bcall.ret.val.binary_type = "call"

\* C10: a call of check_and_build_candidate with the declared keywords never
\* raises: it returns a candidate or None, and it returns None when the
\* vanilla type is not the required one and when spot <= 0, Pb is outside
\* (0,1), Qv <= 0, Pv_usd < 0 or fee_usd < 0 (no ValueError of
\* infer_direction or of the conditions functions comes through).
C10_BuilderNeverRaises ==
    (BuildCalled /\ bcall.kw = {})
    => /\ bcall.ret.tag = "ok"
       /\ bcall.ret.val.tag \in {"None", "TradeCandidate"}
       /\ (~ValidInputs(bcall.args)
             \/ bcall.args.vanilla_type # RequiredVanillaType(bcall.args))
          => Rejected

\* The builder was called with a non-positive spot, inputs otherwise valid,
\* and returned None.
C10_Witness ==
    /\ BuildCalled /\ bcall.kw = {}
    /\ RLe(bcall.args.spot, Zero)
    /\ RLt(Zero, bcall.args.Pb) /\ RLt(bcall.args.Pb, One)
    /\ RLt(Zero, bcall.args.Qv)
    /\ RLe(Zero, bcall.args.Pv_usd) /\ RLe(Zero, bcall.args.fee_usd)
    /\ Rejected

----------------------------------------------------------------------------
(* Claims about the pure functions (SpecFn, SpecRoundTrip) *)

\* C6: with Kv on the bound of the matching strike-bound function and Qb from
\* binary_qty_to_cover_vanilla, the matching payoff function returns a value
\* >= 0 for every terminal spot S_T > 0, E being the proxy outcome.
C6_BoundaryPayoffNonNegative ==
    rt.stage = "settled"
    => rt.payoff.tag = "ok" /\ rt.payoff_sign >= 0

\* C9: infer_direction(spot, Kb) raises a domain error exactly when
\* spot <= 0; otherwise it returns (put, call) when Kb < spot and
\* (call, put) when Kb >= spot, the tie included.
C9_InferDirection ==
    fcall.fn = "infer_direction"
    => LET spot == fcall.args[1]
           Kb == fcall.args[2]
           ret == fcall.ret
       IN  /\ ret.tag = "raise" <=> RLe(spot, Zero)
           /\ ret.tag = "raise" => ret.val = "ValueError"
           /\ (RLt(Zero, spot) /\ RLt(Kb, spot))
                 => ret.tag = "ok" /\ ret.val = <<"put", "call">>
           /\ (RLt(Zero, spot) /\ RLe(spot, Kb))
                 => ret.tag = "ok" /\ ret.val = <<"call", "put">>

\* infer_direction was applied at the tie Kb = spot > 0.
C9_Witness ==
    /\ fcall.fn = "infer_direction"
    /\ fcall.args[1] = fcall.args[2]
    /\ RLt(Zero, fcall.args[1])
    /\ fcall.ret.tag = "ok"

\* C11: binary_qty_to_cover_vanilla(Qv, Pv_usd, fee_usd, Pb) raises a domain
\* error exactly when Pb is not in the open interval (0,1), or Qv <= 0, or
\* Pv_usd < 0, or fee_usd < 0; for every other input it returns
\* Qv * (Pv_usd + fee_usd) / (1 - Pb).
C11_BinaryQtyDomain ==
    fcall.fn = "binary_qty_to_cover_vanilla"
    => LET Qv == fcall.args[1]
           Pv_usd == fcall.args[2]
           fee_usd == fcall.args[3]
           Pb == fcall.args[4]
           outside == \/ RLe(Pb, Zero) \/ RLe(One, Pb)
                      \/ RLe(Qv, Zero)
                      \/ RLt(Pv_usd, Zero)
                      \/ RLt(fee_usd, Zero)
       IN  IF outside
           THEN fcall.ret = Raise("ValueError")
           ELSE /\ fcall.ret.tag = "ok"
                /\ RMul(fcall.ret.val, RSub(One, Pb))
                      = RMul(Qv, RAdd(Pv_usd, fee_usd))

\* binary_qty_to_cover_vanilla was applied to a negative fee with the other
\* arguments in their domains, and raised.
C11_Witness ==
    /\ fcall.fn = "binary_qty_to_cover_vanilla"
    /\ RLt(Zero, fcall.args[1])
    /\ RLe(Zero, fcall.args[2])
    /\ RLt(fcall.args[3], Zero)
    /\ RLt(Zero, fcall.args[4]) /\ RLt(fcall.args[4], One)
    /\ fcall.ret.tag = "raise"

\* The intrinsic value of the vanilla leg of section 4.3: max(S_T - K_v, 0)
\* for the call of the vanilla-call/binary-put pairing, max(K_v - S_T, 0) for
\* the put of the vanilla-put/binary-call pairing.
Intrinsic(fn, S_T, K_v) ==
    LET d == IF fn = "payoff_long_call_binary_put"
             THEN RSub(S_T, K_v) ELSE RSub(K_v, S_T)
    IN  IF RLe(Zero, d) THEN d ELSE Zero

\* C12: each payoff function raises a domain error exactly when S_T <= 0, or
\* E is not 0 or 1, or Q_v <= 0, or Q_b <= 0; otherwise it returns
\* Q_v * (intrinsic - P_v_usd) + Q_b * (E - P_b), the intrinsic value being
\* max(S_T - K_v, 0) for the vanilla-call/binary-put pairing and
\* max(K_v - S_T, 0) for the vanilla-put/binary-call pairing.
C12_PayoffDomainAndValue ==
    fcall.fn \in {"payoff_long_call_binary_put", "payoff_long_put_binary_call"}
    => LET S_T == fcall.args[1]
           K_v == fcall.args[2]
           P_v_usd == fcall.args[3]
           Q_v == fcall.args[4]
           P_b == fcall.args[5]
           Q_b == fcall.args[6]
           E == fcall.args[7]
           outside == \/ RLe(S_T, Zero)
                      \/ ~(E = 0 \/ E = 1)
                      \/ RLe(Q_v, Zero)
                      \/ RLe(Q_b, Zero)
       IN  IF outside
           THEN fcall.ret = Raise("ValueError")
           ELSE fcall.ret =
                   Ok(RAdd(RMul(Q_v, RSub(Intrinsic(fcall.fn, S_T, K_v), P_v_usd)),
                           RMul(Q_b, RSub(R(E), P_b))))

\* The vanilla-put/binary-call payoff was applied to Q_b = 0 with the other
\* arguments in their domains, and raised.
C12_Witness ==
    /\ fcall.fn = "payoff_long_put_binary_call"
    /\ RLt(Zero, fcall.args[1])
    /\ RLt(Zero, fcall.args[4])
    /\ fcall.args[6] = Zero
    /\ fcall.args[7] \in {0, 1}
    /\ fcall.ret.tag = "raise"

\* binary_qty_to_cover_vanilla was applied to accepted arguments and to the
\* same arguments with one of Qv, Pv_usd, fee_usd raised.
ComparedOnAccepted ==
    /\ fcall.fn = "binary_qty_to_cover_vanilla, twice"
    /\ RLt(Zero, fcall.args[4]) /\ RLt(fcall.args[4], One)
    /\ RLt(Zero, fcall.args[1])
    /\ RLe(Zero, fcall.args[2])
    /\ RLe(Zero, fcall.args[3])

\* C21 as stated: on accepted arguments, raising one of Pv_usd, fee_usd, Qv
\* with the others held fixed strictly increases the returned Qb.
C21_StrictlyIncreasing ==
    ComparedOnAccepted
    => /\ fcall.ret[1].tag = "ok" /\ fcall.ret[2].tag = "ok"
       /\ RLt(fcall.ret[1].val, fcall.ret[2].val)

\* Qv was raised with nothing to cover: Pv_usd = fee_usd = 0.
RaisedWithNothingToCover ==
    fcall.args[5] = "Qv" /\ fcall.args[2] = Zero /\ fcall.args[3] = Zero

\* The raise is lost in the rounding of Pv_usd + fee_usd.
RaiseRoundedAway ==
    /\ fcall.args[5] = "fee_usd"
    /\ Binary64Add(fcall.args[2], fcall.args[6])
          = Binary64Add(fcall.args[2], fcall.args[3])

\* C21 as amended: on accepted arguments, raising one of Pv_usd, fee_usd, Qv
\* with the others held fixed never lowers the returned Qb.  Qb stays equal
\* in two cases and rises in every other: a raise of Qv when
\* Pv_usd = fee_usd = 0, where Qb is 0 before and after, and a raise that
\* the rounding of Pv_usd + fee_usd absorbs.
C21_NeverLowersQb ==
    ComparedOnAccepted
    => /\ fcall.ret[1].tag = "ok" /\ fcall.ret[2].tag = "ok"
       /\ RLe(fcall.ret[1].val, fcall.ret[2].val)
       /\ RaisedWithNothingToCover
             => fcall.ret[1].val = Zero /\ fcall.ret[2].val = Zero
       /\ fcall.ret[1].val = fcall.ret[2].val
             <=> RaisedWithNothingToCover \/ RaiseRoundedAway

\* Qv was raised on accepted arguments with Pv_usd = fee_usd = 0.
C21_Witness ==
    /\ ComparedOnAccepted
    /\ RaisedWithNothingToCover
    /\ fcall.ret[2].tag = "ok"

\* A fee raised from 0 to 2^-28 on a premium of 2^26 left Qb as it was.
C21_WitnessRoundedAway ==
    /\ ComparedOnAccepted
    /\ RaiseRoundedAway
    /\ fcall.ret[1].tag = "ok" /\ fcall.ret[1] = fcall.ret[2]

----------------------------------------------------------------------------
(* Claims about scan_opportunities (SpecScan) *)

ScanEnded == scan.pc \in {"returned", "raised"}

\* The rows of the candidates returned to the scanner with edge >= min_edge.
RECURSIVE KeptRows(_, _)
KeptRows(cands, min_edge) ==
    IF cands = <<>> THEN <<>>
    ELSE LET c == Head(cands).ret
         IN  (IF c.tag = "ok" /\ c.val.tag = "TradeCandidate"
                    /\ RLe(min_edge, c.val.edge)
              THEN <<OpportunityRow(c.val)>> ELSE <<>>)
             \o KeptRows(Tail(cands), min_edge)

\* C1: every call of check_and_build_candidate made by scan_opportunities
\* returns a candidate or None without raising, and the table returned holds
\* exactly the returned candidates with edge >= min_edge.
C1_EvaluationReturnsAndTableIsExact ==
    /\ scan.pc # "idle"
          => \A i \in 1 .. Len(scan.cands) : scan.cands[i].ret.tag = "ok"
    /\ scan.pc = "returned"
          => scan_ret.val =
                SortOpportunities(KeptRows(scan.cands, scan_in.cfg.min_edge))

\* Consecutive rows have (date, underlying, expiry) keys in ascending order
\* and, within one key, edges in descending order.
OpportunitiesOrdered(t) ==
    \A i \in 1 .. Len(t) - 1 :
       LET a == t[i]
           b == t[i + 1]
           same == a.date = b.date /\ a.underlying = b.underlying
                      /\ a.expiry = b.expiry
       IN  /\ same \/ OpportunityBefore(a, b)
           /\ same => RLe(b.edge, a.edge)

\* C3: for every input scan_opportunities returns a table, and its rows are
\* ordered by (date, underlying, expiry) ascending, then edge descending.
C3_ReturnsOrderedTable ==
    ScanEnded => scan_ret.tag = "ok" /\ OpportunitiesOrdered(scan_ret.val)

\* C5: a scan called without the three knobs runs in strict mode with exact
\* expiry matching and no clipping: the vanilla rows evaluated for a binary
\* quote have its expiry, the builder is given edge_epsilon = 0 and
\* pb_clip = 0, and the scan ends with a table whose rows have edge > 0.
C5_DefaultsAreStrictAndExact ==
    (scan.pc # "idle" /\ scan_in.cfg.overrides = {})
    => /\ scan.pc \in {"vanillas", "raised"}
             => \A i \in 1 .. Len(scan.v_slice) :
                   scan.v_slice[i].expiry = scan.binary[scan.bi].expiry
       /\ \A i \in 1 .. Len(scan.cands) :
             /\ scan.cands[i].edge_epsilon = Zero
             /\ scan.cands[i].pb_clip = Zero
       /\ ScanEnded
             => /\ scan_ret.tag = "ok"
                /\ \A i \in 1 .. Len(scan_ret.val) :
                      RLt(Zero, scan_ret.val[i].edge)

\* The next step of the outer loop takes a binary quote: ScanCurrent.
ScanAtBinary == scan.pc = "binaries" /\ scan.bi <= Len(scan.binary)
ScanCurrent == scan.binary[scan.bi]

\* The observations of spot_df whose key is (date, underlying) = (d, u).
ScanSpotObservations(d, u) ==
    {j \in 1 .. Len(scan_in.spot_df) :
        /\ Strip(scan_in.spot_df[j].date) = d
        /\ Upper(Strip(scan_in.spot_df[j].underlying)) = u}

\* The spot of quote b: that of the last observation of its key.
ScanSpotOf(b) ==
    LET J == ScanSpotObservations(b.date, b.underlying)
    IN  scan_in.spot_df[CHOOSE j \in J : \A k \in J : k <= j].spot

\* The rows of table t at the indices of I, in the order of t.
RowsAt(t, I) ==
    LET F[k \in 0 .. Len(t)] ==
            IF k = 0 THEN <<>>
            ELSE IF k \in I THEN Append(F[k - 1], t[k]) ELSE F[k - 1]
    IN  F[Len(t)]

\* The day distance between two expiries that both parse.
DayDistance(e1, e2) == Abs(IsoOrdinal(e1) - IsoOrdinal(e2))

\* The vanilla rows to evaluate for quote b, by the matching rule of section
\* 4.1: the rows of b's (date, underlying) and of the required type with b's
\* expiry if there is one; otherwise, with N > 0, those at the least day
\* distance from b's expiry among the ones within N days.
RowsToEvaluate(b, N) ==
    LET V == scan.vanilla
        required == IF RLt(b.strike, ScanSpotOf(b)) THEN "call" ELSE "put"
        Cand == {i \in 1 .. Len(V) : /\ V[i].date = b.date
                                     /\ V[i].underlying = b.underlying
                                     /\ V[i].type = required}
        Exact == {i \in Cand : V[i].expiry = b.expiry}
        Within == {i \in Cand : /\ b.expiry \in IsoStrings
                                /\ V[i].expiry \in IsoStrings
                                /\ DayDistance(V[i].expiry, b.expiry) <= N}
        Nearest == {i \in Within : \A k \in Within :
                       DayDistance(V[i].expiry, b.expiry)
                          <= DayDistance(V[k].expiry, b.expiry)}
    IN  IF Exact # {} THEN RowsAt(V, Exact)
        ELSE IF N > 0 THEN RowsAt(V, Nearest)
        ELSE <<>>

\* The step skips the binary quote: nothing is evaluated, no row is added,
\* nothing is raised and the loop goes on with the next quote.
ScanSkipsQuote ==
    /\ scan'.pc = "binaries"
    /\ scan'.bi = scan.bi + 1
    /\ scan'.rows = scan.rows
    /\ scan'.cands = scan.cands
    /\ scan_ret' = scan_ret

\* C16: for a binary quote that has a spot, the vanilla rows evaluated are
\* the exact-expiry rows of its (date, underlying, required type) if there
\* is one; otherwise, with nearest_expiry_days = N > 0, all the rows of its
\* (date, underlying, required type) at the least day distance d <= N from
\* its expiry, earlier or later; and none when no row lies within N days.
C16_EvaluatedSlice ==
    [][(ScanAtBinary
          /\ ScanSpotObservations(ScanCurrent.date, ScanCurrent.underlying) # {})
       => LET expected == RowsToEvaluate(ScanCurrent,
                                         scan_in.cfg.nearest_expiry_days)
          IN  IF expected = <<>> THEN ScanSkipsQuote
              ELSE /\ scan'.pc = "vanillas"
                   /\ scan'.vi = 1
                   /\ scan'.v_slice = expected]_vars

\* The fallback gave a quote two vanilla rows at the same distance from its
\* expiry, one earlier and one later.
C16_Witness ==
    /\ scan.pc \in {"vanillas", "raised"}
    /\ Len(scan.v_slice) = 2
    /\ StrLt(scan.v_slice[1].expiry, ScanCurrent.expiry)
          # StrLt(scan.v_slice[2].expiry, ScanCurrent.expiry)
    /\ \A i \in 1 .. 2 : scan.v_slice[i].expiry # ScanCurrent.expiry

\* The inner loop is at a vanilla row of the slice: ScanCurrentVanilla.
ScanAtVanilla == scan.pc = "vanillas"
ScanCurrentVanilla == scan.v_slice[scan.vi]

\* The step skips the vanilla row: the builder is not called, no row is
\* added, nothing is raised and the loops go on.
ScanSkipsVanilla ==
    /\ \/ scan'.pc = "vanillas" /\ scan'.vi = scan.vi + 1 /\ scan'.bi = scan.bi
       \/ scan'.pc = "binaries" /\ scan'.bi = scan.bi + 1
    /\ scan'.rows = scan.rows
    /\ scan'.cands = scan.cands
    /\ scan_ret' = scan_ret

\* C17: the USD premium given to the builder for a vanilla row is the row's
\* price_usd when it is present, also when price is present too; otherwise
\* its price times the spot of the binary quote's (date, underlying); a row
\* with neither is skipped without an error.
C17_PremiumUsd ==
    /\ [](scan.pc # "idle" =>
            \A i \in 1 .. Len(scan.cands) :
               LET c == scan.cands[i]
               IN  /\ c.args.spot = ScanSpotOf(c.args)
                   /\ c.v.price_usd # Missing
                         => c.args.Pv_usd = c.v.price_usd
                   /\ c.v.price_usd = Missing
                         => /\ c.v.price # Missing
                            /\ c.args.Pv_usd = RMul(c.v.price, c.args.spot))
    /\ [][(ScanAtVanilla /\ ScanCurrentVanilla.price_usd = Missing
                         /\ ScanCurrentVanilla.price = Missing)
           => ScanSkipsVanilla]_vars

\* A vanilla row with both fields, whose converted price is not its
\* price_usd, was given to the builder with its price_usd.
C17_Witness ==
    /\ scan.pc # "idle"
    /\ \E i \in 1 .. Len(scan.cands) :
          LET c == scan.cands[i]
          IN  /\ c.v.price_usd # Missing /\ c.v.price # Missing
              /\ RMul(c.v.price, c.args.spot) # c.v.price_usd
              /\ c.args.Pv_usd = c.v.price_usd

\* C18: a binary quote whose (date, underlying) has no spot observation is
\* skipped: it adds no row and raises no error; every call of the builder is
\* for a quote that has a spot, with that spot; and it leaves what is
\* produced from the other quotes as it is: a run on the same frames less
\* the quotes without a spot makes the same calls of the builder, with the
\* same results, and ends as the run with them did.
C18_QuoteWithoutSpotSkipped ==
    /\ [][(ScanAtBinary
             /\ ScanSpotObservations(ScanCurrent.date, ScanCurrent.underlying) = {})
          => ScanSkipsQuote]_vars
    /\ [](scan.pc # "idle" =>
            \A i \in 1 .. Len(scan.cands) :
               LET a == scan.cands[i].args
               IN  /\ ScanSpotObservations(a.date, a.underlying) # {}
                   /\ a.spot = ScanSpotOf(a))
    /\ []((ScanEnded /\ scan.run = "without")
            => scan.cands = scan.first_calls /\ scan_ret = scan.first)

\* A run passed a quote without a spot and then evaluated a quote that has
\* one, up to the call of the builder; the run on the frames less the quote
\* without a spot made the same call and ended the same way.
C18_Witness ==
    /\ ScanEnded /\ scan.run = "without"
    /\ \E k, j \in 1 .. Len(scan.given.binary_df) :
          /\ k < j
          /\ ~HasSpot(scan.given, scan.given.binary_df[k])
          /\ HasSpot(scan.given, scan.given.binary_df[j])
    /\ Len(scan.first_calls) > 0
    /\ scan.cands = scan.first_calls
    /\ scan_ret = scan.first

\* C19: a second run of scan_opportunities on the same three frames and the
\* same options yields a table equal to the first run's row for row, and a
\* run leaves the caller's frames as they were passed.
C19_SecondRunYieldsSameTable ==
    /\ scan.pc # "idle" /\ scan.run \in {"first", "again"}
          => scan_in = scan.given
    /\ ScanEnded /\ scan.run = "again"
          => /\ scan.first.tag = "ok"
             /\ scan_ret.tag = "ok"
             /\ scan_ret.val = scan.first.val

\* What holds of two runs on the same frames: the second ends as the first
\* did, with an equal (empty) table or with the same exception.
ScanSecondRunEndsAsFirst ==
    ScanEnded /\ scan.run = "again" => scan_ret = scan.first

\* C20: a run on frames that differ from those of another run only in
\* leading or trailing whitespace of date, underlying, expiry or type values,
\* or in the letter case of underlyings or type labels, ends as that run
\* did, with the same table: rows are matched on the normalized keys.
C20_SpellingDoesNotMatter ==
    /\ scan.pc # "idle" /\ scan.run = "respelled"
          => /\ scan.spot_map = SpotMapOf(NormalizeSpot(scan.given.spot_df))
             /\ scan.binary = NormalizeBinary(scan.given.binary_df)
             /\ scan.vanilla = NormalizeVanilla(scan.given.vanilla_df)
    /\ ScanEnded /\ scan.run = "respelled"
          => scan_ret = scan.first

\* A run on respelled frames (all three differ from the first run's) ended
\* after it had matched a quote with its spot and with a vanilla row, as the
\* first run had.
C20_Witness ==
    /\ ScanEnded /\ scan.run = "respelled"
    /\ scan_in.spot_df # scan.given.spot_df
    /\ scan_in.binary_df # scan.given.binary_df
    /\ scan_in.vanilla_df # scan.given.vanilla_df
    /\ Len(scan.cands) > 0
    /\ scan_ret = scan.first

----------------------------------------------------------------------------
(* Claims about backtest_hold_to_expiry (SpecBacktest) *)

\* An output row of the accepted scenario of section 8 settled at 58000.
IsScenarioRow(row) ==
    /\ row.date = "2024-01-01" /\ row.underlying = "BTC"
    /\ row.expiry = "2024-02-01"
    /\ row.spot_t = R(70000)
    /\ row.binary_type = "put" /\ row.Kb = R(65000) /\ row.Pb = Rat(3, 10)
    /\ row.vanilla_type = "call" /\ row.Kv = R(60000)
    /\ row.Pv_usd = R(2000)
    /\ row.Qv = One /\ row.Qb = Rat(20000, 7)
    /\ row.S_T = R(58000)

\* C7 as stated: the scenario candidate settled at S_T = 58000 has E = 1 and
\* pnl = 2000.
C7_ScenarioPnlIs2000 ==
    bt.pc = "returned"
    => \A i \in 1 .. Len(bt_ret.val) :
          IsScenarioRow(bt_ret.val[i])
          => bt_ret.val[i].E = 1 /\ bt_ret.val[i].pnl = R(2000)

\* C7 as amended: the scenario candidate settled at S_T = 58000 has E = 1 and
\* pnl = 0: the call expires worthless (58000 < 60000) and loses its premium
\* of 2000, the binary put pays 2857.14 * (1 - 0.3) = 2000.
C7_ScenarioPnlIsZero ==
    bt.pc = "returned"
    => \A i \in 1 .. Len(bt_ret.val) :
          IsScenarioRow(bt_ret.val[i])
          => bt_ret.val[i].E = 1 /\ bt_ret.val[i].pnl = Zero

\* The backtest returned a table with the row of the scenario.
C7_Witness ==
    /\ bt.pc = "returned"
    /\ \E i \in 1 .. Len(bt_ret.val) : IsScenarioRow(bt_ret.val[i])

RECURSIVE SumPnl(_, _)
SumPnl(t, i) == IF i = 0 THEN Zero ELSE RAdd(SumPnl(t, i - 1), t[i].pnl)

\* C8: in the table returned, for candidates in any row order, the cum_pnl
\* of each row is the sum of pnl over that row and the rows above it.
C8_CumPnlIsRunningSum ==
    bt.pc = "returned"
    => \A i \in 1 .. Len(bt_ret.val) :
          bt_ret.val[i].cum_pnl = SumPnl(bt_ret.val, i)

\* The rows output so far, and the table returned.
BtOutputRows == IF bt.pc = "idle" THEN <<>> ELSE bt.rows
BtTable == IF bt.pc = "returned" THEN bt_ret.val ELSE <<>>

\* The next step of the loop evaluates a row of the candidates: BtCurrent.
BtAtRow == bt.pc = "rows" /\ bt.i <= Len(bt.opp)
BtCurrent == bt.opp[bt.i]

\* The step skips the row: no row is output, the running sum is unchanged,
\* nothing is raised and the loop goes on with the next row.
BtSkipsRow ==
    /\ bt'.pc = "rows"
    /\ bt'.i = bt.i + 1
    /\ bt'.rows = bt.rows
    /\ bt'.cum = bt.cum
    /\ bt_ret' = bt_ret

\* The observations of spot_df whose key is (date, underlying) = (d, u).
SpotObservations(d, u) ==
    {j \in 1 .. Len(bt_in.spot_df) :
        /\ Strip(bt_in.spot_df[j].date) = d
        /\ Strip(Upper(bt_in.spot_df[j].underlying)) = u}

\* C13: the S_T of every output row is a spot observation keyed by (the
\* row's expiry, the row's underlying), and a candidate with no such
\* observation is skipped: no output row, no error, cum_pnl unchanged.
C13_TerminalSpotOrSkip ==
    /\ [](\A t \in {BtOutputRows, BtTable} : \A i \in 1 .. Len(t) :
            \E j \in SpotObservations(t[i].expiry, t[i].underlying) :
               bt_in.spot_df[j].spot = t[i].S_T)
    /\ [][(BtAtRow /\ SpotObservations(BtCurrent.expiry,
                                        BtCurrent.underlying) = {})
             => BtSkipsRow]_vars

\* Two candidates were given, one with a spot observation at its expiry and
\* one without: the table returned has the row of the first, with an S_T
\* that is not its decision-date spot.
C13_Witness ==
    /\ bt.pc = "returned"
    /\ Len(bt.opp) = 2 /\ Len(bt_ret.val) = 1
    /\ \E k \in 1 .. 2 :
          SpotObservations(bt.opp[k].expiry, bt.opp[k].underlying) = {}
    /\ bt_ret.val[1].S_T # bt_ret.val[1].spot_t

\* The leg types of a row are one of the two pairings of section 4.3.
IsPairing(r) ==
    LET vanilla_type == Strip(Lower(r.vanilla_type))
        binary_type == Strip(Lower(r.binary_type))
    IN  \/ vanilla_type = "call" /\ binary_type = "put"
        \/ vanilla_type = "put" /\ binary_type = "call"

\* C14: a candidate whose (vanilla_type, binary_type) is neither (call, put)
\* nor (put, call) is skipped: no error, no output row, cum_pnl unchanged,
\* and the loop goes on with the remaining rows.
C14_OtherCombinationSkipped ==
    [][(BtAtRow /\ ~IsPairing(BtCurrent)) => BtSkipsRow]_vars

\* C15: every output row has E in {0, 1}; for a call binary leg E = 1 exactly
\* when S_T >= Kb, for a put binary leg E = 1 exactly when S_T < Kb.
C15_ProxyOutcome ==
    \A t \in {BtOutputRows, BtTable} : \A i \in 1 .. Len(t) :
       LET row == t[i]
       IN  /\ row.E \in {0, 1}
           /\ row.binary_type \in {"call", "put"}
           /\ row.binary_type = "call" => (row.E = 1 <=> RLe(row.Kb, row.S_T))
           /\ row.binary_type = "put" => (row.E = 1 <=> RLt(row.S_T, row.Kb))

\* The table returned has a row with a call binary leg settled at the tie
\* S_T = Kb with E = 1.
C15_Witness ==
    /\ bt.pc = "returned"
    /\ \E i \in 1 .. Len(bt_ret.val) :
          /\ bt_ret.val[i].binary_type = "call"
          /\ bt_ret.val[i].S_T = bt_ret.val[i].Kb
          /\ bt_ret.val[i].E = 1

\* The arguments of the builder that a row of opportunities.csv records.
ArgsOfRow(row) ==
    [date |-> row.date, underlying |-> row.underlying, expiry |-> row.expiry,
     spot |-> row.spot, Kb |-> row.Kb, Pb |-> row.Pb, Kv |-> row.Kv,
     vanilla_type |-> row.vanilla_type, Pv_usd |-> row.Pv_usd, Qv |-> row.Qv,
     fee_usd |-> row.fee_usd]

\* The row is the one of a candidate that check_and_build_candidate returns.
IsBuilderCandidate(row) ==
    LET cand == check_and_build_candidate(ArgsOfRow(row))
    IN  /\ cand.tag = "ok"
        /\ cand.val.tag = "TradeCandidate"
        /\ row = OpportunityRow(cand.val)

\* The backtest was called on a table of candidates of the builder and a
\* spot table with positive spots.
BacktestOfCandidates ==
    /\ bt.pc # "idle"
    /\ \A i \in 1 .. Len(bt_in.opp_df) : IsBuilderCandidate(bt_in.opp_df[i])
    /\ \A j \in 1 .. Len(bt_in.spot_df) : RLt(Zero, bt_in.spot_df[j].spot)

\* C22: on a table of candidates returned by check_and_build_candidate (one
\* with Pv_usd = 0 and fee_usd = 0 included) and a spot table with positive
\* spots, backtest_hold_to_expiry raises nothing: no payoff function rejects
\* the Qv and Qb of a candidate.
C22_BacktestOfCandidatesNeverRaises ==
    BacktestOfCandidates => bt.pc # "raised" /\ bt_ret.tag # "raise"

----------------------------------------------------------------------------
(* Claims about a candidate held to expiry (SpecHedge) *)

\* A candidate with Qv = 1, fee_usd = 0 and Pv_usd > 0, settled.
HedgeSettled ==
    /\ hedge.stage = "settled"
    /\ hedge.args.Qv = One
    /\ hedge.args.fee_usd = Zero
    /\ RLt(Zero, hedge.args.Pv_usd)

\* C23: the pnl computed for an accepted candidate with Qv = 1, fee_usd = 0
\* and Pv_usd > 0 is >= 0 at every terminal spot S_T > 0.
C23_ComputedPnlNonNegative ==
    HedgeSettled => hedge.pnl.tag = "ok" /\ hedge.pnl_sign >= 0

\* What holds of such a candidate: the payoff is computed (no raise, no
\* skipped pairing) and its exact value is >= 0 at every terminal spot.
HedgeExactPnlNonNegative ==
    HedgeSettled =>
        /\ hedge.pnl.tag = "ok"
        /\ hedge.pnl.val # Missing
        /\ RLe(Zero, hedge.pnl.val)

\* The sign of every settled payoff of the grid is decided.
HedgeSignDecided ==
    hedge.stage = "settled" /\ hedge.pnl.tag = "ok" /\ hedge.pnl.val # Missing
    => Cardinality(FloatSigns(hedge.pnl.val, hedge.cand.val, hedge.S_T,
                              hedge.E)) = 1

----------------------------------------------------------------------------
(* Claims about the retrying GET helpers (SpecFetch) *)

\* The failures the helpers are documented to retry: network errors,
\* timeouts, HTTP 429 and HTTP 5xx.
Retryable(resp) ==
    IF IsTransportError(resp) THEN resp.raises \in {"ConnectionError", "Timeout"}
    ELSE resp.status = 429 \/ (500 <= resp.status /\ resp.status <= 599)

\* An attempt that succeeds: a 2xx response with a JSON body, which for _get
\* is not an error object of the API.
Succeeds(helper, resp) ==
    /\ ~IsTransportError(resp)
    /\ 200 <= resp.status /\ resp.status < 300
    /\ resp.body # "not json"
    /\ helper = "_get" => resp.body # "error"

GetStarted == http.pc # "idle"

\* C24, as stated, of _get and _get_json: a call makes at most `retries`
\* attempts; it returns at its first successful attempt, with no attempt
\* after it; every attempt that is followed by another one failed with a
\* network error, a timeout, a 429 or a 5xx; and after `retries` failed
\* attempts (i counts the attempts whose exception the helper caught) the
\* call has ended by raising RuntimeError.
C24_RetryPolicy ==
    (GetStarted /\ http.helper \in {"_get", "_get_json"}) =>
        LET n == Len(http.log)
            ok(k) == Succeeds(http.helper, http.log[k])
        IN  /\ http.gets <= http.retries
            /\ \A k \in 1 .. http.gets - 1 : ~ok(k)
            /\ (n > 0 /\ ok(n)) => http.pc = "returned"
            /\ \A k \in 1 .. http.gets - 1 : Retryable(http.log[k])
            /\ http.i = http.retries =>
                   http.pc = "raised" /\ http.ret = Raise("RuntimeError")

----------------------------------------------------------------------------
(* Claims about _get_trades (SpecTrades) *)

\* C25, as stated: each further page request uses an end timestamp strictly
\* smaller than the one before it, and the returned list holds only trades
\* with start_ms <= timestamp < end_ms.
C25_WalkGoesStrictlyBackwards ==
    /\ [][(walk.pc = "paging" /\ walk'.pc = "paging")
             => walk'.cursor_end < walk.cursor_end]_vars
    /\ [](walk.pc = "returned" =>
             \A k \in 1 .. Len(walk.ret.val) :
                 walk.start_ms <= walk.ret.val[k]
                     /\ walk.ret.val[k] < walk.end_ms)

====
